---- MODULE Spec2Model ----
(***************************************************************************)
(* Round-aware build orchestration of the student app builder              *)
(* (src/builder.py, class AppBuilder) together with the tables of          *)
(* src/database.py and the repository adapter of src/utils/github_utils.py.*)
(*                                                                         *)
(* A worker is one run of AppBuilder.build_app.  The store (two tables),   *)
(* the repository provider and the evaluation endpoint are shared by all   *)
(* workers.  A step of a worker is one exchange with the store, the        *)
(* repository provider or the evaluation endpoint, together with the local *)
(* computation that leads to it.                                           *)
(***************************************************************************)
EXTENDS Naturals, Sequences, FiniteSets

(***************************************************************************)
(* Bounds of the model.                                                    *)
(***************************************************************************)
MaxRuns == 3                \* runs of build_app, one after the other
MaxOverlapRuns == 2         \* runs of build_app when they may overlap
MaxN == 6                   \* largest max_retries tried on notify_evaluation alone
MaxFaultRuns == 2           \* runs of build_app when any statement may raise
MaxDoorRequests == 1        \* requests posted to the front door
MaxAttachRuns == 2          \* runs of build_app on requests with an attachment
MaxRetryRuns == 4           \* runs of build_app when round 1 and round 2 are both retried

Workers == {"w1", "w2"}     \* builder processes that may overlap
Tasks == {"t", "T"}         \* task identifiers; they differ only by letter case
Rounds == {1, 2}
Nonces == {"n1", "n2"}
Briefs == {"b1", "b2"}

(***************************************************************************)
(* Program constants.                                                      *)
(***************************************************************************)
DefaultMaxRetries == 5      \* notify_evaluation(..., max_retries=5)
Username == "user"          \* GITHUB_USERNAME

None == <<>>
Some(x) == <<x>>

\* The checks that come with a brief: the two lists share the check "c2".
Checks(brief) == IF brief = "b1" THEN <<"c1", "c2">> ELSE <<"c2", "c3">>

\* The request handed to build_app (request_data).
\* Each submission has its own nonce, its own brief and the checks of that
\* brief; these requests carry no attachment.
Requests ==
    {r \in [task : Tasks, round : Rounds, nonce : Nonces, brief : Briefs,
            checks : {Checks(b) : b \in Briefs}, attachments : {<<>>}] :
        /\ (r.nonce = "n1") <=> (r.brief = "b1")
        /\ r.checks = Checks(r.brief)}
NoRequest == [task |-> "", round |-> 0, nonce |-> "", brief |-> "",
              checks |-> <<>>, attachments |-> <<>>]

(***************************************************************************)
(* Text conversions of the code.                                           *)
(***************************************************************************)
\* str.lower() on the task identifiers of the model.
Lower(s) == IF s = "T" THEN "t" ELSE s

\* column.ilike(pattern): case-insensitive SQL LIKE; in the pattern "_" stands
\* for any one character and "%" for any run of characters.
ILike(value, pattern) ==
    \/ pattern = "%"
    \/ pattern = "_"
    \/ Lower(value) = Lower(pattern)

\* repo_name = f"app-{task_id}"
RepoName(task) == "app-" \o task
RepoNames == {RepoName(t) : t \in Tasks}

\* repo.html_url, kept as its components between the "/" characters:
\* "https://github.com/{username}/{name}".split('/')
HtmlUrl(name) == <<"https:", "", "github.com", Username, name>>

\* repo_url.split('/')[-1]
RepoNameOfUrl(url) == url[Len(url)]

\* f"https://{self.username}.github.io/{repo_name}/" between the "/" characters
get_pages_url(name) == <<"https:", "", Username \o ".github.io", name, "">>

\* What a String column gives back for the value written to it: Python's
\* True is bound as the integer 1 and read back as the text "1".
StringColumn(v) == IF v = <<"True">> THEN <<"1">> ELSE v

(***************************************************************************)
(* Generated contents.                                                     *)
(***************************************************************************)
RoundName(n) == IF n = 1 THEN "1" ELSE "2"

\* A brief is text: the request's brief is one piece, the combined brief of
\* round 2 is several.
Text(brief) == <<brief>>

\* The page the generation provider returns for a brief and a round.
ProviderCode(brief, round_num) == <<"html", RoundName(round_num)>> \o brief
_get_fallback_calculator == <<"App Generation Failed">>

\* What the generation provider does with a request: it answers the page,
\* the page inside a markdown fence, only white space, a status other than
\* 200, or the request raises.
AiReplies == {"page", "fenced", "blank", "non200", "exception"}

\* result['choices'][0]['message']['content'] of a 200 reply; "fence html"
\* and "fence" stand for the markdown fences that open and close a code block.
Content(brief, round_num, reply) ==
    CASE reply = "page"   -> ProviderCode(brief, round_num)
      [] reply = "fenced" -> <<"fence html">> \o ProviderCode(brief, round_num) \o <<"fence">>
      [] reply = "blank"  -> <<" ">>

\* str.strip(): white space at both ends goes.
RECURSIVE Strip(_)
Strip(code) ==
    IF code = <<>> THEN code
    ELSE IF Head(code) = " " THEN Strip(Tail(code))
    ELSE IF code[Len(code)] = " " THEN Strip(SubSeq(code, 1, Len(code) - 1))
    ELSE code

\* AIPipeClient._clean_generated_code: an opening fence and a closing fence
\* are removed, then the text is stripped.
_clean_generated_code(code) ==
    LET opened == IF code # <<>> /\ Head(code) \in {"fence html", "fence"} THEN Tail(code) ELSE code
        closed == IF opened # <<>> /\ opened[Len(opened)] = "fence"
                  THEN SubSeq(opened, 1, Len(opened) - 1) ELSE opened
    IN  Strip(closed)

\* AIPipeClient.generate_code: the cleaned content of a 200 reply, None on any
\* other status and on an exception.  With processed attachments the prompt
\* is never built: it reads attachment['url'], a key that the file
\* information of a processed attachment does not have, the KeyError is
\* caught with every other exception and the result is None.
generate_code(brief, attachments, round_num, reply) ==
    IF attachments # <<>> THEN None
    ELSE IF reply \in {"non200", "exception"} THEN None
    ELSE Some(_clean_generated_code(Content(brief, round_num, reply)))

\* generate_code_with_ai: the provider's page, or the fixed error page when
\* the client returns None or an empty text.
generate_code_with_ai(brief, attachments, round_num, reply) ==
    LET code == generate_code(brief, attachments, round_num, reply)
    IN  IF code # None /\ code[1] # <<>> THEN code[1] ELSE _get_fallback_calculator

create_mit_license == <<"MIT License">>

create_readme(task, brief, round_num, repo_url, pages_url) ==
    <<"README", task, RoundName(round_num)>> \o brief \o repo_url \o pages_url

FileNames == {"index.html", "LICENSE", "README.md"}
Absent == <<>>

(***************************************************************************)
(* Attachments (src/utils/attachment_utils.py).                            *)
(*                                                                         *)
(* The texts of this section are kept as their pieces: a url is "data:",   *)
(* the pieces of the MIME type, ";", "base64", "," and then the characters *)
(* of the payload; a name is the pieces around its last dot.  Bytes are    *)
(* numbers.                                                                *)
(***************************************************************************)
TextPlain == <<"text", "/", "plain">>
OctetStream == <<"application", "/", "octet-stream">>

DataUri(mime_type, marker, payload) == <<"data:">> \o mime_type \o marker \o <<",">> \o payload

\* Names of attachments: without an extension, ending in ".txt", ending in
\* "txt" without a dot, and the names of the three files that the builder
\* generates.
AttachmentNames ==
    {<<"data">>, <<"notes", ".", "txt">>, <<"my", "txt">>,
     <<"LICENSE">>, <<"index", ".", "html">>, <<"README", ".", "md">>}

\* Urls of attachments: the text "hi" as text/plain, the byte 0xFF as
\* text/plain, a payload whose padding is missing, a payload with a character
\* outside the alphabet, a data URI without the base64 marker, "hi" as
\* application/octet-stream, as text/html and as text/markdown, a data URI
\* without a comma, and a web address.
Hi(mime_type) == DataUri(mime_type, <<";", "base64">>, <<"a", "G", "k", "=">>)

AttachmentUrls ==
    { Hi(TextPlain),
      DataUri(TextPlain, <<";", "base64">>, <<"/", "w", "=", "=">>),
      DataUri(TextPlain, <<";", "base64">>, <<"a", "G", "k">>),
      DataUri(TextPlain, <<";", "base64">>, <<"a", "G", "!", "k", "=">>),
      DataUri(TextPlain, <<>>, <<"a", "G", "k", "=">>),
      Hi(OctetStream),
      Hi(<<"text", "/", "html">>),
      Hi(<<"text", "/", "markdown">>),
      <<"data:">> \o TextPlain \o <<";", "base64">>,
      <<"https:", "", "example.com", "hi.txt">> }

\* The attachments of the model: every url under the name "data", the text
\* "hi" under every name, the bytes "hi" under the name of the license, the
\* page "hi" under the name of the entry page and the markdown "hi" under
\* the name of the readme.
Attachments ==
    {a \in [name : AttachmentNames, url : AttachmentUrls] :
        \/ a.name = <<"data">>
        \/ a.url = Hi(TextPlain)
        \/ a.name = <<"LICENSE">> /\ a.url = Hi(OctetStream)
        \/ a.name = <<"index", ".", "html">> /\ a.url = Hi(<<"text", "/", "html">>)
        \/ a.name = <<"README", ".", "md">> /\ a.url = Hi(<<"text", "/", "markdown">>)}

\* The text of the pieces.
RECURSIVE Join(_)
Join(pieces) == IF pieces = <<>> THEN "" ELSE Head(pieces) \o Join(Tail(pieces))

\* str.endswith(suffix), for a suffix that is one piece or two.
EndsWith(text, suffix) ==
    /\ Len(text) >= Len(suffix)
    /\ SubSeq(text, Len(text) - Len(suffix) + 1, Len(text)) = suffix

\* str.startswith(prefix)
StartsWith(text, prefix) ==
    /\ Len(text) >= Len(prefix)
    /\ SubSeq(text, 1, Len(prefix)) = prefix

\* The base64 alphabet, as far as the payloads of the model use it.
B64Value ==
    [c \in {"G", "a", "k", "w", "/"} |->
        CASE c = "G" -> 6 [] c = "a" -> 26 [] c = "k" -> 36 [] c = "w" -> 48 [] c = "/" -> 63]

\* base64.b64decode(data) as binascii.a2b_base64 does it: a character outside
\* the alphabet is dropped, every four characters give three bytes, a
\* complete padding ends the input, and input that ends inside a group
\* raises (None).
RECURSIVE B64DecodeFrom(_, _, _, _, _)
B64DecodeFrom(data, quad_pos, leftchar, pads, bin_data) ==
    IF data = <<>> THEN (IF quad_pos # 0 THEN None ELSE Some(bin_data))
    ELSE LET c == Head(data)
         IN  IF c = "="
             THEN IF quad_pos >= 2 /\ quad_pos + pads + 1 >= 4
                  THEN Some(bin_data)
                  ELSE B64DecodeFrom(Tail(data), quad_pos, leftchar,
                                     IF quad_pos >= 2 THEN pads + 1 ELSE pads, bin_data)
             ELSE IF c \notin DOMAIN B64Value
             THEN B64DecodeFrom(Tail(data), quad_pos, leftchar, pads, bin_data)
             ELSE LET this_ch == B64Value[c]
                  IN  CASE quad_pos = 0 ->
                             B64DecodeFrom(Tail(data), 1, this_ch, 0, bin_data)
                        [] quad_pos = 1 ->
                             B64DecodeFrom(Tail(data), 2, this_ch % 16, 0,
                                           Append(bin_data, leftchar * 4 + this_ch \div 16))
                        [] quad_pos = 2 ->
                             B64DecodeFrom(Tail(data), 3, this_ch % 4, 0,
                                           Append(bin_data, leftchar * 16 + this_ch \div 4))
                        [] quad_pos = 3 ->
                             B64DecodeFrom(Tail(data), 0, 0, 0,
                                           Append(bin_data, leftchar * 64 + this_ch))

b64decode(data) == B64DecodeFrom(data, 0, 0, 0, <<>>)

\* base64.b64encode(content).decode('utf-8')
RECURSIVE b64encode(_)
b64encode(content) ==
    LET B64Char(v) == CHOOSE c \in DOMAIN B64Value : B64Value[c] = v
    IN  IF content = <<>> THEN <<>>
        ELSE IF Len(content) = 1
        THEN <<B64Char(content[1] \div 4), B64Char((content[1] % 4) * 16), "=", "=">>
        ELSE IF Len(content) = 2
        THEN <<B64Char(content[1] \div 4),
               B64Char((content[1] % 4) * 16 + content[2] \div 16),
               B64Char((content[2] % 16) * 4), "=">>
        ELSE <<B64Char(content[1] \div 4),
               B64Char((content[1] % 4) * 16 + content[2] \div 16),
               B64Char((content[2] % 16) * 4 + content[3] \div 64),
               B64Char(content[3] % 64)>> \o b64encode(SubSeq(content, 4, Len(content)))

\* The characters of the ASCII bytes that the payloads of the model hold.
Chr == [b \in {104, 105} |-> IF b = 104 THEN "h" ELSE "i"]

\* bytes.decode('utf-8'): ASCII bytes are their characters; a byte from 0xF8
\* on is in no UTF-8 text and raises (None).
decode_utf8(file_content) ==
    CASE \A i \in 1..Len(file_content) : file_content[i] < 128 ->
           Some([i \in 1..Len(file_content) |-> Chr[file_content[i]]])
      [] \E i \in 1..Len(file_content) : file_content[i] >= 248 -> None

\* AttachmentProcessor._get_extension_from_mime_type
mime_to_ext ==
    { <<<<"image", "/", "png">>, "png">>, <<<<"image", "/", "jpeg">>, "jpg">>,
      <<<<"image", "/", "gif">>, "gif">>, <<<<"image", "/", "svg+xml">>, "svg">>,
      <<TextPlain, "txt">>, <<<<"text", "/", "csv">>, "csv">>,
      <<<<"application", "/", "json">>, "json">>, <<<<"application", "/", "pdf">>, "pdf">>,
      <<<<"text", "/", "markdown">>, "md">>, <<<<"text", "/", "html">>, "html">>,
      <<<<"application", "/", "javascript">>, "js">>, <<<<"text", "/", "css">>, "css">> }

_get_extension_from_mime_type(mime_type) ==
    IF \E e \in mime_to_ext : e[1] = mime_type
    THEN Some((CHOOSE e \in mime_to_ext : e[1] = mime_type)[2])
    ELSE None

\* header.split(';')[0].split(':')[1]: what stands between "data:" and the
\* first ";" of the header.
MimeTypeOf(header) ==
    LET semis == {i \in 1..Len(header) : header[i] = ";"}
        last == IF semis = {} THEN Len(header)
                ELSE (CHOOSE i \in semis : \A j \in semis : i <= j) - 1
    IN  SubSeq(header, 2, last)

\* AttachmentProcessor._process_single_attachment: None for a url that is not
\* a data URI, has no comma or whose payload does not decode; otherwise the
\* payload is decoded as base64 (whatever the header says), the extension of
\* the MIME type is added to a name that does not end with it, and the bytes
\* are written to the file of that name.
_process_single_attachment(attachment) ==
    LET url == attachment.url
        commas == {i \in 1..Len(url) : url[i] = ","}
    IN  IF ~StartsWith(url, <<"data:">>) THEN None
        ELSE IF commas = {} THEN None
        ELSE LET comma == CHOOSE i \in commas : \A j \in commas : i <= j
                 header == SubSeq(url, 1, comma - 1)
                 data == SubSeq(url, comma + 1, Len(url))
                 mime_type == MimeTypeOf(header)
                 file_data == b64decode(data)
                 extension == _get_extension_from_mime_type(mime_type)
                 name == IF extension # None /\ ~EndsWith(attachment.name, <<extension[1]>>)
                         THEN attachment.name \o <<".", extension[1]>>
                         ELSE attachment.name
             IN  IF file_data = None THEN None
                 ELSE Some([name |-> name, path |-> Join(name), mime_type |-> mime_type,
                            size |-> Len(file_data[1]), written |-> file_data[1]])

\* AttachmentProcessor.process_attachments: the file information of the
\* attachments that were processed, in the order of the request.
RECURSIVE process_attachments(_)
process_attachments(attachments) ==
    IF attachments = <<>> THEN <<>>
    ELSE LET file_info == _process_single_attachment(Head(attachments))
         IN  (IF file_info # None THEN file_info ELSE <<>>) \o process_attachments(Tail(attachments))

\* open(attachment['path'], 'rb').read(): what the last write to the path left.
ReadFile(processed_attachments, path) ==
    LET writes == {i \in 1..Len(processed_attachments) : processed_attachments[i].path = path}
    IN  processed_attachments[CHOOSE i \in writes : \A j \in writes : i >= j].written

\* GitHubManager.create_file given bytes: the bytes are encoded to base64
\* text, and that text is what the client library writes to the file.
BytesContent(content) == b64encode(content)

\* The value published under the name of a processed attachment: the text of
\* a file whose MIME type starts with "text/" or whose name ends with
\* ".json", the bytes of any other file; None when the text does not decode.
AttachmentContent(processed_attachments, attachment) ==
    LET file_content == ReadFile(processed_attachments, attachment.path)
    IN  IF StartsWith(attachment.mime_type, <<"text", "/">>) \/ EndsWith(attachment.name, <<".", "json">>)
        THEN decode_utf8(file_content)
        ELSE Some(BytesContent(file_content))

\* for attachment in processed_attachments: files[attachment['name']] = ...;
\* an attachment whose content raises is logged and left out.
RECURSIVE AddAttachments(_, _, _)
AddAttachments(files, processed_attachments, n) ==
    IF n > Len(processed_attachments) THEN files
    ELSE LET attachment == processed_attachments[n]
             content == AttachmentContent(processed_attachments, attachment)
             key == Join(attachment.name)
         IN  AddAttachments(IF content = None THEN files
                            ELSE [f \in DOMAIN files \cup {key} |->
                                     IF f = key THEN content[1] ELSE files[f]],
                            processed_attachments, n + 1)

\* Every file name of the model: the three files of the builder and the
\* names under which the attachments of the model are published.
Paths ==
    FileNames \cup {Join(_process_single_attachment(a)[1].name) :
                       a \in {b \in Attachments : _process_single_attachment(b) # None}}

(***************************************************************************)
(* State.                                                                  *)
(***************************************************************************)
VARIABLES
    app_requests,    \* table app_requests in rowid order
    llm_responses,   \* table llm_responses in rowid order
    repos,           \* the provider's repositories, by name
    pc,              \* pc[w]: where worker w is in build_app
    req,             \* req[w]: request_data of worker w
    loc,             \* loc[w]: local variables of worker w
    ret,             \* ret[w]: what build_app returned (None while running)
    notifications,   \* what evaluation_url received: per call of notify_evaluation that posted, the run's request and the JSON body
    started,         \* runs of build_app started so far
    door             \* the front door (src/app.py): its configuration, the responses it gave, the request files it wrote and the builder processes it started

vars == <<app_requests, llm_responses, repos, pc, req, loc, ret, notifications, started, door>>

NoRepo == [exists |-> FALSE, files |-> [f \in Paths |-> Absent], commits |-> 0, pages |-> FALSE]

\* A repository that was in the account before the store was created.
OldRepo == [exists |-> TRUE, files |-> [f \in Paths |-> IF f \in FileNames THEN <<"old">> ELSE Absent],
            commits |-> 1, pages |-> TRUE]

NoLocals ==
    [ existing    |-> FALSE,  \* existing_request found (_handle_round1)
      round1_request  |-> None,
      round1_response |-> None,
      existing_repo   |-> None,
      processed_attachments |-> "unbound",  \* the local variable of the handler
      processed_files |-> <<>>,             \* what process_attachments returned
      combined_checks |-> <<>>,
      path        |-> "",     \* which handler body runs
      code        |-> None,   \* generated_code / updated_code
      repo        |-> None,   \* name of the repository handle
      repo_url    |-> None,
      pages_url   |-> None,
      n           |-> 0,      \* files of files.items() that the loop is done with
      file        |-> None,   \* create_file: what get_contents found for the current file
      created     |-> FALSE,  \* update_existing_repo: create_file has returned for the current file
      success     |-> TRUE,   \* the success flag of the loop over the files
      wrote       |-> {},     \* history: the paths for which create_file returned True
      commit_sha  |-> 0,      \* 0 stands for None
      enabled     |-> None,   \* what enable_github_pages returned
      status      |-> 0,      \* the provider's reply to the enable request
      report      |-> 0,      \* round written to the records and the payload
      max_retries |-> 0,
      response    |-> <<>>,   \* the outcome of the last POST of notify_evaluation
      posts       |-> 0,      \* POSTs sent by notify_evaluation
      sleeps      |-> <<>>,   \* delays slept by notify_evaluation
      notified    |-> None,   \* what notify_evaluation returned
      db          |-> "none", \* the session of the run: none, open or closed
      fault       |-> FALSE ] \* a provider call of this run failed for an outside reason

(***************************************************************************)
(* The store: queries of the code.                                         *)
(***************************************************************************)
Min(S) == CHOOSE x \in S : \A y \in S : x <= y

\* query.filter(...).first(): the first matching row in rowid order, or None.
First(rows, Match(_)) ==
    LET hits == {i \in 1..Len(rows) : Match(rows[i])}
    IN  IF hits = {} THEN None ELSE Some(rows[Min(hits)])

\* query.filter(...).delete(): the rows that stay.
Delete(rows, Match(_)) == SelectSeq(rows, LAMBDA row : ~Match(row))

\* UniqueConstraint('task', 'round_num'): would adding the row violate it?
ViolatesUnique(rows, task, round_num) ==
    \E i \in 1..Len(rows) : rows[i].task = task /\ rows[i].round_num = round_num

\* id = Column(Integer, primary_key=True): the key the store gives a row when
\* it is inserted, one more than the largest key of the table.
NextId(rows) ==
    IF rows = <<>> THEN 1
    ELSE 1 + (CHOOSE id \in {rows[i].id : i \in 1..Len(rows)} :
                 \A i \in 1..Len(rows) : rows[i].id <= id)

\* The first read of an attribute of a loaded row after a commit: the session
\* has expired the object and reads the row again by its key.  None stands
\* for the ObjectDeletedError raised when no row has the key any more.
Refresh(rows, id) ==
    LET hits == {i \in 1..Len(rows) : rows[i].id = id}
    IN  IF hits = {} THEN None ELSE Some(rows[CHOOSE i \in hits : TRUE])

AppRequest(id, r, round_num) ==
    [id |-> id, task |-> r.task, round_num |-> round_num, nonce |-> r.nonce, brief |-> r.brief,
     checks |-> r.checks, attachments |-> r.attachments]

LLMResponse(id, task, round_num, code, repo_url, pages_url, commit_sha) ==
    [id |-> id, task |-> task, round_num |-> round_num, generated_code |-> code,
     repo_url |-> repo_url, pages_url |-> StringColumn(pages_url), commit_sha |-> commit_sha]

\* The JSON body posted to evaluation_url.
EvaluationData(r, round_num, repo_url, commit_sha, pages_url) ==
    [task |-> r.task, round |-> round_num, nonce |-> r.nonce,
     repo_url |-> repo_url, commit_sha |-> commit_sha, pages_url |-> pages_url]

(***************************************************************************)
(* The repository provider (src/utils/github_utils.py).                    *)
(***************************************************************************)
\* user.create_repo(name, auto_init=False): an empty repository.
NewRepo == [exists |-> TRUE, files |-> [f \in Paths |-> Absent], commits |-> 0, pages |-> FALSE]

\* create_repository handing out the repository that already has the name.
create_repository_Reuses(name, providerOk) ==
    IF providerOk THEN Some(name) ELSE None

\* GitHubManager.create_repository: the handle, or None on a GithubException
\* (the name is taken, or the provider fails).
create_repository(name, providerOk) ==
    IF providerOk /\ ~repos[name].exists THEN Some(name) ELSE None

\* GitHubManager.get_repository: the handle, or None on a GithubException.
get_repository(name, providerOk) ==
    IF providerOk /\ name \in RepoNames /\ repos[name].exists THEN Some(name) ELSE None

\* repo.get_contents(path): the file as it is in the repository, which is
\* what its sha stands for; Absent when the request raises a GithubException
\* (no such file, or the provider fails).
get_contents(name, path, providerOk) ==
    IF providerOk /\ repos[name].exists THEN repos[name].files[path] ELSE Absent

\* The provider takes a write only when the file is as the writer read it:
\* update_file carries the sha that get_contents returned, create_file asks
\* for a file that is not there.
Accepts(name, path, file, providerOk) ==
    providerOk /\ repos[name].exists /\ repos[name].files[path] = file

\* One exchange of GitHubManager.create_file(repo, path, content) with the
\* provider.  With nothing looked up yet it is get_contents.  With a file
\* found it is update_file, and an update that raises leads to the except
\* branch, as a lookup that found nothing does.  In the except branch it is
\* repo.create_file, and a creation that raises makes the call return False.
\* The result is None while the call is under way.
create_file(name, path, content, file, providerOk) ==
    IF file = None
    THEN [repos |-> repos, file |-> Some(get_contents(name, path, providerOk)), result |-> None]
    ELSE IF Accepts(name, path, file[1], providerOk)
    THEN [repos |-> [repos EXCEPT ![name].files[path] = content, ![name].commits = @ + 1],
          file |-> None, result |-> Some(TRUE)]
    ELSE IF file[1] # Absent
    THEN [repos |-> repos, file |-> Some(Absent), result |-> None]
    ELSE [repos |-> repos, file |-> None, result |-> Some(FALSE)]

\* GitHubManager.get_latest_commit_sha, and repo.get_commits()[0].sha: the
\* latest revision, which the number of commits stands for; None (0) when the
\* request fails or the repository has no commit.
get_latest_commit_sha(name, providerOk) ==
    IF providerOk /\ repos[name].exists THEN repos[name].commits ELSE 0

\* commit_and_push reporting the latest revision although a file failed.
commit_and_push_Partial(success, latest) == latest

\* AppBuilder.commit_and_push, after the loop over the files: the latest
\* revision when every create_file returned True, otherwise None (0).
commit_and_push(success, latest) == IF success THEN latest ELSE 0

\* update_existing_repo reporting the revision although a file failed.
update_existing_repo_Partial(success, commit_sha) == commit_sha

\* GitHubManager.update_existing_repo, after the loop over the files: the
\* revision read after the last file when every create_file returned True and
\* every revision lookup answered, otherwise None (0).
update_existing_repo(success, commit_sha) == IF success THEN commit_sha ELSE 0

\* Replies of the provider to the request that enables public serving.
PagesReplies == {201, 422, 500}

\* enable_pages taking a 422 reply for a failure like any other error.
enable_pages_Strict(status) == status = 201

\* GitHubManager.enable_pages: True on success and on a 422 reply.
enable_pages(status) == status \in {201, 422}

(***************************************************************************)
(* The file sets that the handlers publish.                                *)
(***************************************************************************)
\* files_to_commit of the Create path.
FilesToCommit(task, brief, round_num, code, repo_url, pages_url) ==
    [f \in FileNames |->
        CASE f = "index.html" -> code
          [] f = "LICENSE"    -> create_mit_license
          [] f = "README.md"  -> create_readme(task, brief, round_num, repo_url, pages_url)]

\* CombinedBrief with the two briefs in each other's place.
CombinedBrief_Swapped(round1_brief, brief) ==
    <<"ORIGINAL REQUEST (Round 1):", brief,
      "REVISION REQUEST (Round 2):", round1_brief,
      "Please update the existing application to include the new requirements while maintaining all existing functionality.">>

\* combined_brief of _handle_round2.
CombinedBrief(round1_brief, brief) ==
    <<"ORIGINAL REQUEST (Round 1):", round1_brief,
      "REVISION REQUEST (Round 2):", brief,
      "Please update the existing application to include the new requirements while maintaining all existing functionality.">>

\* files_to_update of the Revise path.
FilesToUpdate(task, brief, round_num, code, repo_url, pages_url) ==
    [f \in {"index.html", "README.md"} |->
        CASE f = "index.html" -> code
          [] f = "README.md"  -> create_readme(task, brief, round_num, repo_url, pages_url)]

\* The file set that the run of worker w publishes, once its code is generated.
GeneratedFilesOf(w) ==
    CASE loc[w].path = "round2" ->
           FilesToUpdate(req[w].task,
                         CombinedBrief(loc[w].round1_request[1].brief, req[w].brief),
                         req[w].round, loc[w].code, loc[w].repo_url, loc[w].pages_url)
      [] loc[w].path = "round1" ->
           FilesToCommit(req[w].task, Text(req[w].brief), req[w].round, loc[w].code,
                         loc[w].repo_url, loc[w].pages_url)
      [] OTHER ->
           FilesToCommit(req[w].task, Text(req[w].brief), 1, loc[w].code,
                         loc[w].repo_url, get_pages_url(RepoNameOfUrl(loc[w].repo_url)))

FilesOf(w) == AddAttachments(GeneratedFilesOf(w), loc[w].processed_files, 1)

\* files.items(): the names of a file set in the order of insertion, the
\* files of the builder first, then the attachments added under a new name.
RECURSIVE Keys(_, _, _)
Keys(keys, processed_attachments, n) ==
    IF n > Len(processed_attachments) THEN keys
    ELSE LET attachment == processed_attachments[n]
             content == AttachmentContent(processed_attachments, attachment)
             key == Join(attachment.name)
         IN  Keys(IF content = None \/ \E i \in 1..Len(keys) : keys[i] = key
                  THEN keys ELSE Append(keys, key),
                  processed_attachments, n + 1)

KeysOf(w) ==
    Keys(IF loc[w].path = "round2" THEN <<"index.html", "README.md">>
         ELSE <<"index.html", "LICENSE", "README.md">>,
         loc[w].processed_files, 1)
(***************************************************************************)
(* Steps of a worker.                                                      *)
(***************************************************************************)
Running(w) == pc[w] \notin {"idle", "done"}

Goto(w, next, locals) ==
    /\ pc' = [pc EXCEPT ![w] = next]
    /\ loc' = [loc EXCEPT ![w] = locals]
    /\ UNCHANGED ret

\* Return leaving the session open.
Return_LeavesSessionOpen(w, value, locals) ==
    /\ pc' = [pc EXCEPT ![w] = "done"]
    /\ loc' = [loc EXCEPT ![w] = locals]
    /\ ret' = [ret EXCEPT ![w] = Some(value)]

\* A handler returns: build_app closes the session (finally: db.close()) and
\* hands the value on.
Return(w, value, locals) ==
    /\ pc' = [pc EXCEPT ![w] = "done"]
    /\ loc' = [loc EXCEPT ![w] = [locals EXCEPT !.db = "closed"]]
    /\ ret' = [ret EXCEPT ![w] = Some(value)]

\* build_app: a builder process takes a request and dispatches on the round.
build_app(w, r) ==
    /\ ~Running(w)
    /\ w = "w1" \/ Running("w1")
    /\ started' = started + 1
    /\ req' = [req EXCEPT ![w] = r]
    /\ pc' = [pc EXCEPT ![w] = IF r.round = 1 THEN "r1_query" ELSE "fb_lookup"]
    /\ loc' = [loc EXCEPT ![w] = [NoLocals EXCEPT !.db = "open"]]
    /\ ret' = [ret EXCEPT ![w] = None]
    /\ UNCHANGED <<app_requests, llm_responses, repos, notifications, door>>

\* build_app when no other run is in progress.
build_app_alone(w, r) ==
    /\ \A v \in Workers : ~Running(v)
    /\ build_app(w, r)

\* build_app raising before it has a session (a field missing from
\* request_data, create_tables or get_db_session failing).
build_app_raises(w, r) ==
    /\ \A v \in Workers : ~Running(v)
    /\ w = "w1"
    /\ started' = started + 1
    /\ req' = [req EXCEPT ![w] = r]
    /\ pc' = [pc EXCEPT ![w] = "build_app_except"]
    /\ loc' = [loc EXCEPT ![w] = [NoLocals EXCEPT !.fault = TRUE]]
    /\ ret' = [ret EXCEPT ![w] = None]
    /\ UNCHANGED <<app_requests, llm_responses, repos, notifications, door>>

\* build_app: except Exception: return False.
build_app_except(w) ==
    /\ pc[w] = "build_app_except"
    /\ pc' = [pc EXCEPT ![w] = "done"]
    /\ ret' = [ret EXCEPT ![w] = Some(FALSE)]
    /\ UNCHANGED <<app_requests, llm_responses, repos, req, loc, notifications, started, door>>

\* The steps of the handlers in which a statement can raise into the except
\* clause of the handler: every exchange with the store, the work on the
\* files, and the requests to the repository provider that the handler makes
\* itself.  enable_pages and generate_code_with_ai catch what they raise.
HandlerSteps ==
    {"r1_query", "r1_delete", "r1_insert", "r1_generate", "r1_create_repo", "r1_commit", "r1_store",
     "fb_lookup", "fb_lookup_response", "fb_find_repo", "fb_insert", "fb_generate",
     "fb_create_repo", "fb_commit", "fb_store",
     "r2_lookup", "r2_lookup_response", "r2_all_tasks", "r2_insert", "r2_refresh_request",
     "r2_generate", "r2_refresh_response", "r2_update", "r2_get_repo", "r2_store"}

\* A statement of a handler raises (the store is unreachable, the provider
\* client raises something it does not catch): control goes to the handler's
\* except clause, the store is left as the last commit left it.  Inside the
\* loop of update_existing_repo an exception is caught per file, which the
\* failing exchanges of R2Update cover.
Raise(w) ==
    /\ pc[w] \in HandlerSteps
    /\ pc[w] = "r2_update" => loc[w].repo = None
    /\ Goto(w, "handler_except", [loc[w] EXCEPT !.fault = TRUE])
    /\ UNCHANGED <<app_requests, llm_responses, repos, req, notifications, started, door>>

\* The handlers: except Exception: return False.
handler_except(w) ==
    /\ pc[w] = "handler_except"
    /\ Return(w, FALSE, loc[w])
    /\ UNCHANGED <<app_requests, llm_responses, repos, req, notifications, started, door>>

\* The filter of the round-1 rows matching the task whatever its letter case.
IsRound1Of_AnyCase(task, row) == Lower(row.task) = Lower(task) /\ row.round_num = 1

\* filter(AppRequest.task == task, AppRequest.round_num == 1)
IsRound1Of(task, row) == row.task = task /\ row.round_num = 1

\* _handle_round1: look for an existing round-1 request of the task.
R1Query(w) ==
    /\ pc[w] = "r1_query"
    /\ LET IsMine(row) == IsRound1Of(req[w].task, row)
           existing_request == First(app_requests, IsMine)
       IN  Goto(w, IF existing_request # None THEN "r1_delete" ELSE "r1_insert",
                [loc[w] EXCEPT !.existing = existing_request # None, !.path = "round1"])
    /\ UNCHANGED <<app_requests, llm_responses, repos, req, notifications, started, door>>

\* R1Delete with the deletion of the old request forgotten.
R1Delete_KeepsRequest(w) ==
    /\ pc[w] = "r1_delete"
    /\ LET IsMine(row) == IsRound1Of(req[w].task, row)
       IN  /\ app_requests' = app_requests
           /\ llm_responses' = Delete(llm_responses, IsMine)
    /\ Goto(w, "r1_insert", loc[w])
    /\ UNCHANGED <<repos, req, notifications, started, door>>

\* _handle_round1: delete the round-1 rows of the task from both tables.
R1Delete(w) ==
    /\ pc[w] = "r1_delete"
    /\ LET IsMine(row) == IsRound1Of(req[w].task, row)
       IN  /\ app_requests' = Delete(app_requests, IsMine)
           /\ llm_responses' = Delete(llm_responses, IsMine)
    /\ Goto(w, "r1_insert", loc[w])
    /\ UNCHANGED <<repos, req, notifications, started, door>>

\* R1Insert into a table without the uniqueness constraint.
R1Insert_Unconstrained(w) ==
    /\ pc[w] = "r1_insert"
    /\ app_requests' = Append(app_requests, AppRequest(NextId(app_requests), req[w], req[w].round))
    /\ Goto(w, "r1_generate", [loc[w] EXCEPT !.report = req[w].round])
    /\ UNCHANGED <<llm_responses, repos, req, notifications, started, door>>

\* _handle_round1: store the new request; a duplicate (task, round) raises
\* and the handler returns False.
R1Insert(w) ==
    /\ pc[w] = "r1_insert"
    /\ IF ViolatesUnique(app_requests, req[w].task, req[w].round)
       THEN /\ Return(w, FALSE, loc[w])
            /\ UNCHANGED app_requests
       ELSE /\ app_requests' = Append(app_requests, AppRequest(NextId(app_requests), req[w], req[w].round))
            /\ Goto(w, "r1_generate", [loc[w] EXCEPT !.report = req[w].round])
    /\ UNCHANGED <<llm_responses, repos, req, notifications, started, door>>

\* _handle_round1: process the attachments and ask the AI provider for the
\* page.
R1Generate(w) ==
    /\ pc[w] = "r1_generate"
    /\ \E reply \in AiReplies :
         LET processed_attachments == process_attachments(req[w].attachments)
             generated_code == generate_code_with_ai(Text(req[w].brief), processed_attachments,
                                                     req[w].round, reply)
             generated == [loc[w] EXCEPT !.processed_attachments = "bound",
                                         !.processed_files = processed_attachments,
                                         !.code = generated_code]
         IN  IF generated_code = <<>>      \* if not generated_code: return False
             THEN Return(w, FALSE, generated)
             ELSE Goto(w, "r1_create_repo", generated)
    /\ UNCHANGED <<app_requests, llm_responses, repos, req, notifications, started, door>>

\* _handle_round1: create the repository app-{task}.
R1CreateRepo(w) ==
    /\ pc[w] = "r1_create_repo"
    /\ \E providerOk \in BOOLEAN :
         LET name == RepoName(req[w].task)
             repo == create_repository(name, providerOk)
         IN  IF repo = None
             THEN /\ Return(w, FALSE, [loc[w] EXCEPT !.fault = ~providerOk])
                  /\ UNCHANGED repos
             ELSE /\ repos' = [repos EXCEPT ![name] = NewRepo]
                  /\ Goto(w, "r1_commit",
                          [loc[w] EXCEPT !.repo = repo, !.repo_url = HtmlUrl(name),
                                         !.pages_url = get_pages_url(name)])
    /\ UNCHANGED <<app_requests, llm_responses, req, notifications, started, door>>

\* R1Commit going on to the next step without a revision id.
R1Commit_IgnoresRevision(w) ==
    /\ pc[w] = "r1_commit"
    /\ \E providerOk \in BOOLEAN :
         LET name == loc[w].repo[1]
             keys == KeysOf(w)
         IN  IF loc[w].n < Len(keys)
             THEN LET path == keys[loc[w].n + 1]
                      content == FilesOf(w)[path]
                      call == create_file(name, path, content, loc[w].file, providerOk)
                  IN  /\ repos' = call.repos
                      /\ Goto(w, "r1_commit",
                              [loc[w] EXCEPT !.file = call.file,
                                             !.n = IF call.result = None THEN @ ELSE @ + 1,
                                             !.success = @ /\ call.result # Some(FALSE),
                                             !.wrote = IF call.result = Some(TRUE) THEN @ \cup {path} ELSE @,
                                             !.fault = @ \/ call # create_file(name, path, content,
                                                                               loc[w].file, TRUE)])
             ELSE LET commit_sha == commit_and_push(loc[w].success,
                                                    get_latest_commit_sha(name, providerOk))
                  IN  /\ UNCHANGED repos
                      /\ Goto(w, "r1_pages",
                              [loc[w] EXCEPT !.commit_sha = commit_sha,
                                             !.fault = @ \/ (loc[w].success /\ commit_sha = 0)])
    /\ UNCHANGED <<app_requests, llm_responses, req, notifications, started, door>>

\* _handle_round1, commit_and_push: one exchange with the repository
\* provider.  Inside the loop over files_to_commit it is the next exchange
\* of create_file for the current file; after the loop it is the lookup of
\* the latest revision when every file was written, and the handler returns
\* False when commit_and_push returns None.
R1Commit(w) ==
    /\ pc[w] = "r1_commit"
    /\ \E providerOk \in BOOLEAN :
         LET name == loc[w].repo[1]
             keys == KeysOf(w)
         IN  IF loc[w].n < Len(keys)
             THEN LET path == keys[loc[w].n + 1]
                      content == FilesOf(w)[path]
                      call == create_file(name, path, content, loc[w].file, providerOk)
                  IN  /\ repos' = call.repos
                      /\ Goto(w, "r1_commit",
                              [loc[w] EXCEPT !.file = call.file,
                                             !.n = IF call.result = None THEN @ ELSE @ + 1,
                                             !.success = @ /\ call.result # Some(FALSE),
                                             !.wrote = IF call.result = Some(TRUE) THEN @ \cup {path} ELSE @,
                                             !.fault = @ \/ call # create_file(name, path, content,
                                                                               loc[w].file, TRUE)])
             ELSE LET commit_sha == commit_and_push(loc[w].success,
                                                    get_latest_commit_sha(name, providerOk))
                  IN  /\ UNCHANGED repos
                      /\ IF commit_sha = 0
                         THEN Return(w, FALSE, [loc[w] EXCEPT !.fault = @ \/ loc[w].success])
                         ELSE Goto(w, "r1_pages", [loc[w] EXCEPT !.commit_sha = commit_sha])
    /\ UNCHANGED <<app_requests, llm_responses, req, notifications, started, door>>

\* The provider's reply to an enable request: 201 turns serving on, 422 and
\* 500 are refusals that leave the repository as it is.
PagesReply(name, status) ==
    status = 201 => ~repos[name].pages

PagesAfter(name, status) ==
    [repos EXCEPT ![name].pages = @ \/ status = 201]

\* R1Pages returning False when enable_pages returned False.
R1Pages_Fatal(w) ==
    /\ pc[w] = "r1_pages"
    /\ \E status \in PagesReplies :
         /\ PagesReply(loc[w].repo[1], status)
         /\ repos' = PagesAfter(loc[w].repo[1], status)
         /\ IF enable_pages(status)
            THEN Goto(w, "r1_store", [loc[w] EXCEPT !.enabled = Some(TRUE), !.status = status])
            ELSE Return(w, FALSE, [loc[w] EXCEPT !.enabled = Some(FALSE), !.status = status,
                                                 !.fault = TRUE])
    /\ UNCHANGED <<app_requests, llm_responses, req, notifications, started, door>>

\* _handle_round1: enable public serving; the result is not looked at.
R1Pages(w) ==
    /\ pc[w] = "r1_pages"
    /\ \E status \in PagesReplies :
         /\ PagesReply(loc[w].repo[1], status)
         /\ repos' = PagesAfter(loc[w].repo[1], status)
         /\ Goto(w, "r1_store", [loc[w] EXCEPT !.enabled = Some(enable_pages(status)),
                                            !.status = status,
                                            !.fault = @ \/ ~enable_pages(status)])
    /\ UNCHANGED <<app_requests, llm_responses, req, notifications, started, door>>

\* R1Store returning True without calling notify_evaluation.
R1Store_SkipsNotify(w) ==
    /\ pc[w] = "r1_store"
    /\ llm_responses' = Append(llm_responses,
           LLMResponse(NextId(llm_responses), req[w].task, req[w].round, loc[w].code, loc[w].repo_url,
                       loc[w].pages_url, loc[w].commit_sha))
    /\ Return(w, TRUE, [loc[w] EXCEPT !.max_retries = DefaultMaxRetries])
    /\ UNCHANGED <<app_requests, repos, req, notifications, started, door>>

\* _handle_round1: store the LLM response, then call notify_evaluation.
R1Store(w) ==
    /\ pc[w] = "r1_store"
    /\ llm_responses' = Append(llm_responses,
           LLMResponse(NextId(llm_responses), req[w].task, req[w].round, loc[w].code, loc[w].repo_url,
                       loc[w].pages_url, loc[w].commit_sha))
    /\ Goto(w, "notify", [loc[w] EXCEPT !.max_retries = DefaultMaxRetries])
    /\ UNCHANGED <<app_requests, repos, req, notifications, started, door>>

(***************************************************************************)
(* notify_evaluation.                                                      *)
(***************************************************************************)
RECURSIVE Pow2(_)
Pow2(n) == IF n = 0 THEN 1 ELSE 2 * Pow2(n - 1)

\* delay = 2 ** attempt
Delay(attempt) == Pow2(attempt)

\* SleepsAfter sleeping after the last attempt too.
SleepsAfter_AfterLast(sleeps, attempt, max_retries) ==
    IF attempt < max_retries THEN Append(sleeps, Delay(attempt)) ELSE sleeps

\* After a failed attempt: sleep unless it was the last one.
SleepsAfter(sleeps, attempt, max_retries) ==
    IF attempt < max_retries - 1 THEN Append(sleeps, Delay(attempt)) ELSE sleeps

\* Outcomes of one POST: a status code, or a transport error.
PostOutcomes == {"200", "201", "500", "error"}

\* IsSuccess taking every 2xx status for a success.
IsSuccess_Any2xx(outcome) == outcome \in {"200", "201"}

\* response.status_code == 200
IsSuccess(outcome) == outcome = "200"

evaluation_data(w) ==
    EvaluationData(req[w], loc[w].report, loc[w].repo_url, loc[w].commit_sha, loc[w].pages_url)

\* NotifyWith with the handler returning what notify_evaluation returned.
NotifyWith_ReturnsResult(w, outcome) ==
    LET attempt == loc[w].posts
        max_retries == loc[w].max_retries
        returns == IsSuccess(outcome) \/ attempt + 1 >= max_retries
    IN  /\ notifications' = IF attempt = 0
                            THEN Append(notifications, [request |-> req[w], data |-> evaluation_data(w)])
                            ELSE notifications
        /\ pc' = [pc EXCEPT ![w] = IF returns THEN "done" ELSE "notify"]
        /\ loc' = [loc EXCEPT ![w] =
               [@ EXCEPT !.response = Some(outcome),
                         !.posts = @ + 1,
                         !.sleeps = IF IsSuccess(outcome) THEN @
                                    ELSE SleepsAfter(@, attempt, max_retries),
                         !.notified = IF returns THEN Some(IsSuccess(outcome)) ELSE None,
                         !.db = IF returns /\ @ = "open" THEN "closed" ELSE @]]
        /\ ret' = [ret EXCEPT ![w] = IF returns /\ loc[w].path # ""
                                     THEN Some(IsSuccess(outcome)) ELSE @]
        /\ UNCHANGED <<app_requests, llm_responses, repos, req, started, door>>

\* One pass of the loop of notify_evaluation, for a given outcome of its
\* POST: the request is sent; a 200 makes the call return True; any other
\* outcome is followed by the sleep, unless the attempt was the last one, and
\* then the call returns False.  The endpoint has the payload from the first
\* POST on.  When the call returns, the handler that made it returns True
\* whatever the call returned.
NotifyWith(w, outcome) ==
    LET attempt == loc[w].posts
        max_retries == loc[w].max_retries
        returns == IsSuccess(outcome) \/ attempt + 1 >= max_retries
    IN  /\ notifications' = IF attempt = 0
                            THEN Append(notifications, [request |-> req[w], data |-> evaluation_data(w)])
                            ELSE notifications
        /\ pc' = [pc EXCEPT ![w] = IF returns THEN "done" ELSE "notify"]
        /\ loc' = [loc EXCEPT ![w] =
               [@ EXCEPT !.response = Some(outcome),
                         !.posts = @ + 1,
                         !.sleeps = IF IsSuccess(outcome) THEN @
                                    ELSE SleepsAfter(@, attempt, max_retries),
                         !.notified = IF returns THEN Some(IsSuccess(outcome)) ELSE None,
                         !.db = IF returns /\ @ = "open" THEN "closed" ELSE @]]
        /\ ret' = [ret EXCEPT ![w] = IF returns /\ loc[w].path # "" THEN Some(TRUE) ELSE @]
        /\ UNCHANGED <<app_requests, llm_responses, repos, req, started, door>>

\* The next POST of the call of notify_evaluation that ends a handler (the
\* handlers call it with the default max_retries), whatever the endpoint does
\* with it.
Notify(w) ==
    /\ pc[w] = "notify"
    /\ \E outcome \in PostOutcomes : NotifyWith(w, outcome)

\* notify_evaluation called on its own, against any endpoint: the next POST,
\* or the return of a call whose max_retries leaves the loop no pass.
NotifyAny(w) ==
    /\ pc[w] = "notify"
    /\ IF loc[w].max_retries > 0
       THEN \E outcome \in PostOutcomes : NotifyWith(w, outcome)
       ELSE /\ pc' = [pc EXCEPT ![w] = "done"]
            /\ loc' = [loc EXCEPT ![w].notified = Some(FALSE)]
            /\ UNCHANGED <<app_requests, llm_responses, repos, req, ret, notifications, started, door>>

(***************************************************************************)
(* Round 2: _handle_round2_with_fallback.                                  *)
(***************************************************************************)
IsRound1Like(task, row) == ILike(row.task, task) /\ row.round_num = 1

\* round1_request = db.query(AppRequest).filter(task.ilike(task), round_num == 1).first()
FindRound1Request(task) == LET Hit(row) == IsRound1Like(task, row) IN First(app_requests, Hit)

\* round1_response = db.query(LLMResponse).filter(task.ilike(task), round_num == 1).first()
FindRound1Response(task) == LET Hit(row) == IsRound1Like(task, row) IN First(llm_responses, Hit)

\* _handle_round2_with_fallback: the lookup of the round-1 request.
FbLookup(w) ==
    /\ pc[w] = "fb_lookup"
    /\ Goto(w, "fb_lookup_response",
            [loc[w] EXCEPT !.round1_request = FindRound1Request(req[w].task)])
    /\ UNCHANGED <<app_requests, llm_responses, repos, req, notifications, started, door>>

\* _handle_round2_with_fallback: the lookup of the round-1 response, then
\* the branch on whether both were found.
FbLookupResponse(w) ==
    /\ pc[w] = "fb_lookup_response"
    /\ LET round1_response == FindRound1Response(req[w].task)
       IN  Goto(w, IF loc[w].round1_request = None \/ round1_response = None
                   THEN "fb_find_repo" ELSE "r2_lookup",
                [loc[w] EXCEPT !.round1_response = round1_response])
    /\ UNCHANGED <<app_requests, llm_responses, repos, req, notifications, started, door>>

\* _handle_round2_with_fallback: look for a repository named app-{task}.
\* When one is found the call of _update_existing_repo_with_fallback reads
\* processed_attachments, a local that is assigned only further down: the
\* read raises, the except clause around the lookup logs it, and the handler
\* goes on to the fallback Create path as if nothing had been found.
FbFindRepo(w) ==
    /\ pc[w] = "fb_find_repo"
    /\ \E providerOk \in BOOLEAN :
         LET existing_repo == get_repository(RepoName(req[w].task), providerOk)
             found == [loc[w] EXCEPT !.existing_repo = existing_repo,
                                     !.fault = ~providerOk /\ repos[RepoName(req[w].task)].exists]
         IN  IF existing_repo # None /\ loc[w].processed_attachments # "unbound"
             THEN Goto(w, "fu_generate", [found EXCEPT !.path = "fallback_update"])
             ELSE Goto(w, "fb_insert", [found EXCEPT !.path = "fallback_create"])
    /\ UNCHANGED <<app_requests, llm_responses, repos, req, notifications, started, door>>

\* FbInsert storing the request under the round it asked for.
FbInsert_KeepsRound(w) ==
    /\ pc[w] = "fb_insert"
    /\ IF ViolatesUnique(app_requests, req[w].task, req[w].round)
       THEN /\ Return(w, FALSE, loc[w])
            /\ UNCHANGED app_requests
       ELSE /\ app_requests' = Append(app_requests, AppRequest(NextId(app_requests), req[w], req[w].round))
            /\ Goto(w, "fb_generate", [loc[w] EXCEPT !.report = 1])
    /\ UNCHANGED <<llm_responses, repos, req, notifications, started, door>>

\* FbInsert replacing the round-1 request that is in the way.
FbInsert_Replaces(w) ==
    /\ pc[w] = "fb_insert"
    /\ LET IsMine(row) == IsRound1Of(req[w].task, row)
       IN  app_requests' = LET kept == Delete(app_requests, IsMine)
                           IN  Append(kept, AppRequest(NextId(kept), req[w], 1))
    /\ Goto(w, "fb_generate", [loc[w] EXCEPT !.report = 1])
    /\ UNCHANGED <<llm_responses, repos, req, notifications, started, door>>

\* Fallback Create path: store the request as round 1.
FbInsert(w) ==
    /\ pc[w] = "fb_insert"
    /\ IF ViolatesUnique(app_requests, req[w].task, 1)
       THEN /\ Return(w, FALSE, loc[w])
            /\ UNCHANGED app_requests
       ELSE /\ app_requests' = Append(app_requests, AppRequest(NextId(app_requests), req[w], 1))
            /\ Goto(w, "fb_generate", [loc[w] EXCEPT !.report = 1])
    /\ UNCHANGED <<llm_responses, repos, req, notifications, started, door>>

\* Fallback Create path: process the attachments and ask the AI provider for
\* the page, as for round 1.
FbGenerate(w) ==
    /\ pc[w] = "fb_generate"
    /\ \E reply \in AiReplies :
         LET processed_attachments == process_attachments(req[w].attachments)
             generated_code == generate_code_with_ai(Text(req[w].brief), processed_attachments, 1, reply)
             generated == [loc[w] EXCEPT !.processed_attachments = "bound",
                                         !.processed_files = processed_attachments,
                                         !.code = generated_code]
         IN  IF generated_code = <<>>      \* if not generated_code: return False
             THEN Return(w, FALSE, generated)
             ELSE Goto(w, "fb_create_repo", generated)
    /\ UNCHANGED <<app_requests, llm_responses, repos, req, notifications, started, door>>

\* Fallback Create path: create the repository app-{task}.
FbCreateRepo(w) ==
    /\ pc[w] = "fb_create_repo"
    /\ \E providerOk \in BOOLEAN :
         LET name == RepoName(req[w].task)
             repo == create_repository(name, providerOk)
         IN  IF repo = None
             THEN /\ Return(w, FALSE, [loc[w] EXCEPT !.fault = @ \/ ~providerOk])
                  /\ UNCHANGED repos
             ELSE /\ repos' = [repos EXCEPT ![name] = NewRepo]
                  /\ Goto(w, "fb_commit", [loc[w] EXCEPT !.repo = repo, !.repo_url = HtmlUrl(name)])
    /\ UNCHANGED <<app_requests, llm_responses, req, notifications, started, door>>

\* FbCommit going on to the next step without a revision id.
FbCommit_IgnoresRevision(w) ==
    /\ pc[w] = "fb_commit"
    /\ \E providerOk \in BOOLEAN :
         LET name == loc[w].repo[1]
             keys == KeysOf(w)
         IN  IF loc[w].n < Len(keys)
             THEN LET path == keys[loc[w].n + 1]
                      content == FilesOf(w)[path]
                      call == create_file(name, path, content, loc[w].file, providerOk)
                  IN  /\ repos' = call.repos
                      /\ Goto(w, "fb_commit",
                              [loc[w] EXCEPT !.file = call.file,
                                             !.n = IF call.result = None THEN @ ELSE @ + 1,
                                             !.success = @ /\ call.result # Some(FALSE),
                                             !.wrote = IF call.result = Some(TRUE) THEN @ \cup {path} ELSE @,
                                             !.fault = @ \/ call # create_file(name, path, content,
                                                                               loc[w].file, TRUE)])
             ELSE LET commit_sha == commit_and_push(loc[w].success,
                                                    get_latest_commit_sha(name, providerOk))
                  IN  /\ UNCHANGED repos
                      /\ Goto(w, "fb_pages",
                              [loc[w] EXCEPT !.commit_sha = commit_sha,
                                             !.fault = @ \/ (loc[w].success /\ commit_sha = 0)])
    /\ UNCHANGED <<app_requests, llm_responses, req, notifications, started, door>>

\* Fallback Create path, commit_and_push: one exchange with the repository
\* provider, as in R1Commit.
FbCommit(w) ==
    /\ pc[w] = "fb_commit"
    /\ \E providerOk \in BOOLEAN :
         LET name == loc[w].repo[1]
             keys == KeysOf(w)
         IN  IF loc[w].n < Len(keys)
             THEN LET path == keys[loc[w].n + 1]
                      content == FilesOf(w)[path]
                      call == create_file(name, path, content, loc[w].file, providerOk)
                  IN  /\ repos' = call.repos
                      /\ Goto(w, "fb_commit",
                              [loc[w] EXCEPT !.file = call.file,
                                             !.n = IF call.result = None THEN @ ELSE @ + 1,
                                             !.success = @ /\ call.result # Some(FALSE),
                                             !.wrote = IF call.result = Some(TRUE) THEN @ \cup {path} ELSE @,
                                             !.fault = @ \/ call # create_file(name, path, content,
                                                                               loc[w].file, TRUE)])
             ELSE LET commit_sha == commit_and_push(loc[w].success,
                                                    get_latest_commit_sha(name, providerOk))
                  IN  /\ UNCHANGED repos
                      /\ IF commit_sha = 0
                         THEN Return(w, FALSE, [loc[w] EXCEPT !.fault = @ \/ loc[w].success])
                         ELSE Goto(w, "fb_pages", [loc[w] EXCEPT !.commit_sha = commit_sha])
    /\ UNCHANGED <<app_requests, llm_responses, req, notifications, started, door>>

\* What the handler holds after pages_url = self.enable_github_pages(repo):
\* the boolean that enable_pages returned.
PagesUrlOfFallback(status) == IF enable_pages(status) THEN <<"True">> ELSE <<"False">>

\* Fallback Create path: enable public serving; a False result ends the run.
FbPages(w) ==
    /\ pc[w] = "fb_pages"
    /\ \E status \in PagesReplies :
         LET pages_url == PagesUrlOfFallback(status)
         IN  /\ PagesReply(loc[w].repo[1], status)
             /\ repos' = PagesAfter(loc[w].repo[1], status)
             /\ IF pages_url = <<"False">>
                THEN Return(w, FALSE, [loc[w] EXCEPT !.enabled = Some(FALSE), !.status = status,
                                                     !.fault = TRUE])
                ELSE Goto(w, "fb_store", [loc[w] EXCEPT !.enabled = Some(TRUE), !.status = status,
                                                        !.pages_url = pages_url])
    /\ UNCHANGED <<app_requests, llm_responses, req, notifications, started, door>>

\* Fallback Create path: store the LLM response as round 1, then notify.
FbStore(w) ==
    /\ pc[w] = "fb_store"
    /\ llm_responses' = Append(llm_responses,
           LLMResponse(NextId(llm_responses), req[w].task, 1, loc[w].code, loc[w].repo_url,
                       loc[w].pages_url, loc[w].commit_sha))
    /\ Goto(w, "notify", [loc[w] EXCEPT !.max_retries = DefaultMaxRetries])
    /\ UNCHANGED <<app_requests, repos, req, notifications, started, door>>

(***************************************************************************)
(* Round 2 with round-1 data: _handle_round2.                              *)
(***************************************************************************)
\* _handle_round2: look the round-1 request up again.
R2Lookup(w) ==
    /\ pc[w] = "r2_lookup"
    /\ Goto(w, "r2_lookup_response",
            [loc[w] EXCEPT !.round1_request = FindRound1Request(req[w].task),
                           !.path = "round2"])
    /\ UNCHANGED <<app_requests, llm_responses, repos, req, notifications, started, door>>

\* _handle_round2: look the round-1 response up again; when a row is gone,
\* read the tasks of the store for the log and give up.
R2LookupResponse(w) ==
    /\ pc[w] \in {"r2_lookup_response", "r2_all_tasks"}
    /\ IF pc[w] = "r2_all_tasks"
       THEN Return(w, FALSE, loc[w])
       ELSE LET round1_response == FindRound1Response(req[w].task)
            IN  Goto(w, IF loc[w].round1_request = None \/ round1_response = None
                        THEN "r2_all_tasks" ELSE "r2_insert",
                     [loc[w] EXCEPT !.round1_response = round1_response])
    /\ UNCHANGED <<app_requests, llm_responses, repos, req, notifications, started, door>>

\* _handle_round2: store the round-2 request.  The commit expires the rows
\* that the session has loaded, so that their next read goes to the store;
\* but a new row that is given the key of the loaded round-1 request (its row
\* is gone and no key is larger) takes its place in the session, and the
\* loaded request, left out of the expiry, is read as it was loaded.
R2Insert(w) ==
    /\ pc[w] = "r2_insert"
    /\ IF ViolatesUnique(app_requests, req[w].task, req[w].round)
       THEN /\ Return(w, FALSE, loc[w])
            /\ UNCHANGED app_requests
       ELSE LET id == NextId(app_requests)
            IN  /\ app_requests' = Append(app_requests, AppRequest(id, req[w], req[w].round))
                /\ Goto(w, IF id = loc[w].round1_request[1].id
                            THEN "r2_generate" ELSE "r2_refresh_request",
                         [loc[w] EXCEPT !.report = req[w].round])
    /\ UNCHANGED <<llm_responses, repos, req, notifications, started, door>>

\* _handle_round2: round1_request.brief, read after the commit of the
\* round-2 request, loads the round-1 request again by its key.  The row the
\* store has under that key now is the one the handler goes on with; when no
\* row has the key the read raises and the handler returns False.
R2RefreshRequest(w) ==
    /\ pc[w] = "r2_refresh_request"
    /\ LET round1_request == Refresh(app_requests, loc[w].round1_request[1].id)
       IN  IF round1_request = None
           THEN Return(w, FALSE, loc[w])
           ELSE Goto(w, "r2_generate", [loc[w] EXCEPT !.round1_request = round1_request])
    /\ UNCHANGED <<app_requests, llm_responses, repos, req, notifications, started, door>>

\* _handle_round2: combine the briefs and the checks of the round-1 request
\* as loaded and of the round-2 request, process the attachments, and ask the
\* AI provider for the updated page.
R2Generate(w) ==
    /\ pc[w] = "r2_generate"
    /\ \E reply \in AiReplies :
         LET combined_brief == CombinedBrief(loc[w].round1_request[1].brief, req[w].brief)
             combined_checks == loc[w].round1_request[1].checks \o req[w].checks
             processed_attachments == process_attachments(req[w].attachments)
             updated_code == generate_code_with_ai(combined_brief, processed_attachments,
                                                   req[w].round, reply)
             generated == [loc[w] EXCEPT !.processed_attachments = "bound",
                                         !.processed_files = processed_attachments,
                                         !.combined_checks = combined_checks,
                                         !.code = updated_code]
         IN  IF updated_code = <<>>        \* if not updated_code: return False
             THEN Return(w, FALSE, generated)
             ELSE Goto(w, "r2_refresh_response", generated)
    /\ UNCHANGED <<app_requests, llm_responses, repos, req, notifications, started, door>>

\* R2RefreshResponse deriving the serving URL from the repository name
\* instead of taking it from the round-1 response.
R2RefreshResponse_DerivesPagesUrl(w) ==
    /\ pc[w] = "r2_refresh_response"
    /\ LET round1_response == Refresh(llm_responses, loc[w].round1_response[1].id)
       IN  IF round1_response = None
           THEN Return(w, FALSE, loc[w])
           ELSE Goto(w, "r2_update",
                     [loc[w] EXCEPT !.round1_response = round1_response,
                                    !.repo_url = round1_response[1].repo_url,
                                    !.pages_url = get_pages_url(RepoNameOfUrl(round1_response[1].repo_url))])
    /\ UNCHANGED <<app_requests, llm_responses, repos, req, notifications, started, door>>

\* _handle_round2: round1_response.repo_url, read after the commit and the
\* AI request, loads the round-1 response again by its key; repo_url and
\* pages_url are taken from the row the store has under that key now.  When
\* no row has the key the read raises and the handler returns False.
R2RefreshResponse(w) ==
    /\ pc[w] = "r2_refresh_response"
    /\ LET round1_response == Refresh(llm_responses, loc[w].round1_response[1].id)
       IN  IF round1_response = None
           THEN Return(w, FALSE, loc[w])
           ELSE Goto(w, "r2_update",
                     [loc[w] EXCEPT !.round1_response = round1_response,
                                    !.repo_url = round1_response[1].repo_url,
                                    !.pages_url = round1_response[1].pages_url])
    /\ UNCHANGED <<app_requests, llm_responses, repos, req, notifications, started, door>>

\* _handle_round2, update_existing_repo: one exchange with the repository
\* provider.  The first fetches the repository named by the repo_url of the
\* round-1 response.  Then, for every file of files_to_update, come the
\* exchanges of create_file and the lookup of the latest revision, which
\* clears the success flag when it raises.  After the last file the handler
\* returns False when update_existing_repo returns None.
R2Update(w) ==
    /\ pc[w] = "r2_update"
    /\ \E providerOk \in BOOLEAN :
         LET name == RepoNameOfUrl(loc[w].repo_url)
             keys == KeysOf(w)
         IN  IF loc[w].repo = None
             THEN /\ UNCHANGED repos
                  /\ IF get_repository(name, providerOk) = None
                     THEN Return(w, FALSE, [loc[w] EXCEPT !.fault = TRUE])
                     ELSE Goto(w, "r2_update", [loc[w] EXCEPT !.repo = Some(name)])
             ELSE IF ~loc[w].created
             THEN LET path == keys[loc[w].n + 1]
                      content == FilesOf(w)[path]
                      call == create_file(name, path, content, loc[w].file, providerOk)
                  IN  /\ repos' = call.repos
                      /\ Goto(w, "r2_update",
                              [loc[w] EXCEPT !.file = call.file,
                                             !.created = call.result # None,
                                             !.success = @ /\ call.result # Some(FALSE),
                                             !.wrote = IF call.result = Some(TRUE) THEN @ \cup {path} ELSE @,
                                             !.fault = @ \/ call # create_file(name, path, content,
                                                                               loc[w].file, TRUE)])
             ELSE LET latest == get_latest_commit_sha(name, providerOk)
                      locals == [loc[w] EXCEPT !.n = @ + 1,
                                               !.created = FALSE,
                                               !.commit_sha = IF latest # 0 THEN latest ELSE @,
                                               !.success = @ /\ latest # 0,
                                               !.fault = @ \/ latest = 0]
                      commit_sha == update_existing_repo(locals.success, locals.commit_sha)
                  IN  /\ UNCHANGED repos
                      /\ IF locals.n < Len(keys)
                         THEN Goto(w, "r2_update", locals)
                         ELSE IF commit_sha = 0
                         THEN Return(w, FALSE, [locals EXCEPT !.commit_sha = 0])
                         ELSE Goto(w, "r2_get_repo", locals)
    /\ UNCHANGED <<app_requests, llm_responses, req, notifications, started, door>>

\* _handle_round2: fetch the repository again; a failed fetch raises and the
\* handler returns False.
R2GetRepo(w) ==
    /\ pc[w] = "r2_get_repo"
    /\ \E providerOk \in BOOLEAN :
         IF get_repository(loc[w].repo[1], providerOk) = None
         THEN Return(w, FALSE, [loc[w] EXCEPT !.fault = TRUE])
         ELSE Goto(w, "r2_pages", loc[w])
    /\ UNCHANGED <<app_requests, llm_responses, repos, req, notifications, started, door>>

\* _handle_round2: trigger public serving again; the result of enable_pages
\* is not looked at.
R2Pages(w) ==
    /\ pc[w] = "r2_pages"
    /\ \E status \in PagesReplies :
         /\ PagesReply(loc[w].repo[1], status)
         /\ repos' = PagesAfter(loc[w].repo[1], status)
         /\ Goto(w, "r2_store", [loc[w] EXCEPT !.enabled = Some(enable_pages(status)),
                                            !.status = status,
                                            !.fault = @ \/ ~enable_pages(status)])
    /\ UNCHANGED <<app_requests, llm_responses, req, notifications, started, door>>

\* _handle_round2: store the round-2 LLM response, then notify.
R2Store(w) ==
    /\ pc[w] = "r2_store"
    /\ llm_responses' = Append(llm_responses,
           LLMResponse(NextId(llm_responses), req[w].task, req[w].round, loc[w].code, loc[w].repo_url,
                       loc[w].pages_url, loc[w].commit_sha))
    /\ Goto(w, "notify", [loc[w] EXCEPT !.max_retries = DefaultMaxRetries])
    /\ UNCHANGED <<app_requests, repos, req, notifications, started, door>>

(***************************************************************************)
(* The front door (src/app.py).                                            *)
(***************************************************************************)
\* The front door before any request, with nothing configured.
NoDoor == [student_secret |-> None, aipipe_token |-> FALSE, github_token |-> FALSE,
           github_username |-> FALSE,
           responses |-> <<>>,   \* the responses given, with the body they answer
           tasks |-> <<>>,       \* background tasks added and not yet run
           files |-> <<>>,       \* request files written by run_builder_process
           processes |-> <<>>,   \* builder processes started, by their request
           errors |-> <<>>,      \* requests for which starting the process raised
           temp |-> <<>>]        \* per request file: whether it exists, where its cleanup thread and its builder process are

RequiredFields == {"email", "secret", "task", "round", "nonce", "brief", "evaluation_url"}

\* JSON bodies posted to /api-endpoint: each required field is missing (None)
\* or has a value; an email is its characters.
Bodies ==
    [email : {None, Some(<<"a", "@", "b">>), Some(<<"a", "b">>)},
     secret : {None, Some("s3cret"), Some("wrong")},
     task : {None, Some("t")},
     round : {None, Some(0), Some(1), Some(2), Some(3)},
     nonce : {None, Some("n1")},
     brief : {None, Some("b1")},
     evaluation_url : {None, Some("url")}]

\* round: int = Field(..., ge=1, le=2) letting any round through.
RoundOk_AnyRound(round) == TRUE

\* round: int = Field(..., ge=1, le=2)
RoundOk(round) == round >= 1 /\ round <= 2

\* validate_email: '@' in v
validate_email(v) == \E i \in 1..Len(v) : v[i] = "@"

\* AppBuildRequest: every required field is there, the round is 1 or 2 and
\* the email has an "@".
Validates(body) ==
    /\ \A f \in RequiredFields : body[f] # None
    /\ RoundOk(body.round[1])
    /\ validate_email(body.email[1])

\* verify_secret accepting every secret.
verify_secret_Any(provided_secret, STUDENT_SECRET) == TRUE

\* verify_secret: provided_secret == STUDENT_SECRET, where STUDENT_SECRET is
\* None when the environment does not set it.
verify_secret(provided_secret, STUDENT_SECRET) == Some(provided_secret) = STUDENT_SECRET

\* request_data.dict(), as far as the builder reads it.
DataDict(body) ==
    [task |-> body.task[1], round |-> body.round[1], nonce |-> body.nonce[1], brief |-> body.brief[1],
     checks |-> <<>>, attachments |-> <<>>]

\* The status of the response: 422 from the validation of the body, 403 from
\* the secret check, 500 when a token is not configured, 200 when accepted.
StatusOf(body) ==
    IF ~Validates(body) THEN 422
    ELSE IF ~verify_secret(body.secret[1], door.student_secret) THEN 403
    ELSE IF ~door.aipipe_token THEN 500
    ELSE IF ~door.github_token THEN 500
    ELSE 200

\* add_task adding the task twice.
add_task_Twice(tasks, request_data) == tasks \o <<request_data, request_data>>

\* background_tasks.add_task(run_builder_process, request_data)
add_task(tasks, request_data) == Append(tasks, request_data)

\* handle_app_build_request: the response, and for an accepted request the
\* background task, which runs after the response is given.
handle_app_build_request(body) ==
    /\ Len(door.responses) < MaxDoorRequests
    /\ LET status == StatusOf(body)
       IN  door' = [door EXCEPT
               !.responses = Append(@, [body |-> body, status |-> status,
                                        text |-> IF status = 200 THEN "accepted" ELSE "error",
                                        handed |-> status = 200]),
               !.tasks = IF status = 200 THEN add_task(@, DataDict(body)) ELSE @]
    /\ UNCHANGED <<app_requests, llm_responses, repos, pc, req, loc, ret, notifications, started>>

\* run_builder_process, the background task: it writes the request file and
\* starts builder.py on it; when the start raises, the error is logged and no
\* process runs.
run_builder_process ==
    /\ door.tasks # <<>>
    /\ \E popenOk \in BOOLEAN :
         door' = [door EXCEPT
             !.tasks = Tail(@),
             !.files = Append(@, Head(door.tasks)),
             !.processes = IF popenOk THEN Append(@, Head(door.tasks)) ELSE @,
             !.errors = IF popenOk THEN @ ELSE Append(@, Head(door.tasks)),
             !.temp = Append(@, [exists |-> TRUE,
                                 thread |-> IF popenOk THEN "sleeping" ELSE "none",
                                 builder |-> IF popenOk THEN "starting" ELSE "none",
                                 worker |-> "none", exit |-> None])]
    /\ UNCHANGED <<app_requests, llm_responses, repos, pc, req, loc, ret, notifications, started>>

\* cleanup_temp_file, the thread that run_builder_process starts: when its
\* sleep is over it unlinks the request file; a file that is gone already
\* makes the unlink raise, which is swallowed.
cleanup_temp_file ==
    /\ \E k \in 1..Len(door.temp) :
         /\ door.temp[k].thread = "sleeping"
         /\ door' = [door EXCEPT !.temp[k] = [@ EXCEPT !.thread = "finished", !.exists = FALSE]]
    /\ UNCHANGED <<app_requests, llm_responses, repos, pc, req, loc, ret, notifications, started>>

\* main of builder.py, up to the load of the request file: open raises when
\* the file is not there.
main ==
    /\ \E k \in 1..Len(door.temp) :
         /\ door.temp[k].builder = "starting"
         /\ door' = [door EXCEPT !.temp[k].builder =
                                     IF door.temp[k].exists THEN "loaded" ELSE "missing"]
    /\ UNCHANGED <<app_requests, llm_responses, repos, pc, req, loc, ret, notifications, started>>

\* main of builder.py, after the load: AppBuilder() raises when a token or
\* the user name is not in the environment, which the process has from the
\* front door, and build_app is not called; otherwise
\* builder.build_app(request_data) runs on the request that
\* run_builder_process wrote to the file: it opens its session and
\* dispatches on the round.
main_build ==
    \/ /\ ~(door.aipipe_token /\ door.github_token /\ door.github_username)
       /\ \E k \in 1..Len(door.temp) :
            /\ door.temp[k].builder = "loaded"
            /\ door' = [door EXCEPT !.temp[k].builder = "raised"]
       /\ UNCHANGED <<app_requests, llm_responses, repos, pc, req, loc, ret, notifications, started>>
    \/ /\ door.aipipe_token /\ door.github_token /\ door.github_username
       /\ \E k \in 1..Len(door.temp), w \in Workers :
            /\ door.temp[k].builder = "loaded"
            /\ ~Running(w)
            /\ w = "w1" \/ Running("w1")
            /\ \A j \in 1..Len(door.temp) :
                  door.temp[j].builder = "building" => door.temp[j].worker # w
            /\ started' = started + 1
            /\ req' = [req EXCEPT ![w] = door.files[k]]
            /\ pc' = [pc EXCEPT ![w] = IF door.files[k].round = 1 THEN "r1_query" ELSE "fb_lookup"]
            /\ loc' = [loc EXCEPT ![w] = [NoLocals EXCEPT !.db = "open"]]
            /\ ret' = [ret EXCEPT ![w] = None]
            /\ door' = [door EXCEPT !.temp[k] = [@ EXCEPT !.builder = "building", !.worker = w]]
       /\ UNCHANGED <<app_requests, llm_responses, repos, notifications>>

\* main of builder.py, the end: sys.exit(0) when build_app returned True,
\* sys.exit(1) when it returned False or when the load or AppBuilder()
\* raised; the finally clause removes the request file if it exists.
main_finally ==
    /\ \E k \in 1..Len(door.temp) :
         /\ door.temp[k].exit = None
         /\ \/ door.temp[k].builder \in {"missing", "raised"}
            \/ door.temp[k].builder = "building" /\ pc[door.temp[k].worker] = "done"
         /\ door' = [door EXCEPT !.temp[k] =
                         [@ EXCEPT !.builder = IF @ = "building" THEN "built" ELSE @,
                                   !.exit = IF door.temp[k].builder = "building"
                                               /\ ret[door.temp[k].worker] = Some(TRUE)
                                            THEN Some(0) ELSE Some(1),
                                   !.exists = FALSE]]
    /\ UNCHANGED <<app_requests, llm_responses, repos, pc, req, loc, ret, notifications, started>>

(***************************************************************************)
(* Specifications.                                                         *)
(***************************************************************************)
Idle ==
    /\ pc = [w \in Workers |-> "idle"]
    /\ req = [w \in Workers |-> NoRequest]
    /\ loc = [w \in Workers |-> NoLocals]
    /\ ret = [w \in Workers |-> None]

\* An empty store; the account may already hold repositories.
Init ==
    /\ app_requests = <<>>
    /\ llm_responses = <<>>
    /\ repos \in [RepoNames -> {NoRepo, OldRepo}]
    /\ notifications = <<>>
    /\ started = 0
    /\ door = NoDoor
    /\ Idle

\* What a round-1 build for the request r has left when it went through:
\* its request and its response in the store, the repository app-{task} with
\* its three files and its pages enabled, one notification.
Built(r) ==
    LET name == RepoName(r.task)
        code == generate_code_with_ai(Text(r.brief), <<>>, r.round, "page")
        files == FilesToCommit(r.task, Text(r.brief), r.round, code,
                               HtmlUrl(name), get_pages_url(name))
    IN  [app_requests |-> <<AppRequest(1, r, r.round)>>,
         llm_responses |-> <<LLMResponse(1, r.task, r.round, code, HtmlUrl(name),
                                         get_pages_url(name), 3)>>,
         repos |-> [n \in RepoNames |->
                      IF n = name
                      THEN [exists |-> TRUE,
                            files |-> [f \in Paths |-> IF f \in FileNames THEN files[f] ELSE Absent],
                            commits |-> 3, pages |-> TRUE]
                      ELSE NoRepo],
         notifications |-> <<[request |-> r,
                              data |-> EvaluationData(r, r.round, HtmlUrl(name), 3,
                                                      get_pages_url(name))]>>]

Handler(w) ==
    \/ R1Query(w) \/ R1Delete(w) \/ R1Insert(w) \/ R1Generate(w)
    \/ R1CreateRepo(w) \/ R1Commit(w) \/ R1Pages(w) \/ R1Store(w)
    \/ FbLookup(w) \/ FbLookupResponse(w) \/ FbFindRepo(w) \/ FbInsert(w) \/ FbGenerate(w)
    \/ FbCreateRepo(w) \/ FbCommit(w) \/ FbPages(w) \/ FbStore(w)
    \/ R2Lookup(w) \/ R2LookupResponse(w) \/ R2Insert(w) \/ R2RefreshRequest(w)
    \/ R2Generate(w) \/ R2RefreshResponse(w)
    \/ R2Update(w) \/ R2GetRepo(w) \/ R2Pages(w) \/ R2Store(w)
    \/ Notify(w)

\* The two task identifiers play the same part in every step, and so do the
\* two submissions (nonce, brief and checks), so the first run of an
\* execution is taken to be for "t" and to carry the nonce "n1".
FirstRun(r) == started = 0 => r.task = "t" /\ r.nonce = "n1"

\* Builder processes that may overlap.
Next ==
    \/ \E w \in Workers, r \in Requests :
         started < MaxOverlapRuns /\ FirstRun(r) /\ build_app(w, r)
    \/ \E w \in Workers : Handler(w)

\* An empty store; the account may already hold a repository for "t".
OverlapInit == Init /\ repos["app-T"] = NoRepo

Spec == OverlapInit /\ [][Next]_vars

\* Builder processes one after the other.
SeqNext ==
    \/ \E w \in Workers, r \in Requests :
         started < MaxRuns /\ FirstRun(r) /\ build_app_alone(w, r)
    \/ \E w \in Workers : Handler(w)

SeqSpec == Init /\ [][SeqNext]_vars

\* notify_evaluation on its own: any payload, any max_retries.
NotifyInit ==
    /\ app_requests = <<>>
    /\ llm_responses = <<>>
    /\ repos = [n \in RepoNames |-> NoRepo]
    /\ notifications = <<>>
    /\ started = 0
    /\ door = NoDoor
    /\ ret = [w \in Workers |-> None]
    /\ \E r \in Requests, max_retries \in 0..MaxN :
         /\ req = [w \in Workers |-> IF w = "w1" THEN r ELSE NoRequest]
         /\ pc = [w \in Workers |-> IF w = "w1" THEN "notify" ELSE "idle"]
         /\ loc = [w \in Workers |->
                     IF w = "w1"
                     THEN [NoLocals EXCEPT !.max_retries = max_retries, !.report = r.round,
                                           !.repo_url = HtmlUrl(RepoName(r.task)),
                                           !.pages_url = get_pages_url(RepoName(r.task)),
                                           !.commit_sha = 1]
                     ELSE NoLocals]

NotifyNext == \E w \in Workers : NotifyAny(w)

NotifySpec == NotifyInit /\ [][NotifyNext]_vars

\* The front door and the builder processes it starts, under every
\* configuration of the environment: the server starts on an empty store, or
\* on the store, the repository and the notification of an earlier build.
DoorInit ==
    /\ \E built \in BOOLEAN :
         LET earlier == Built([task |-> "t", round |-> 1, nonce |-> "n1", brief |-> "b1",
                               checks |-> <<>>, attachments |-> <<>>])
         IN  /\ app_requests = IF built THEN earlier.app_requests ELSE <<>>
             /\ llm_responses = IF built THEN earlier.llm_responses ELSE <<>>
             /\ repos = IF built THEN earlier.repos ELSE [n \in RepoNames |-> NoRepo]
             /\ notifications = IF built THEN earlier.notifications ELSE <<>>
    /\ started = 0
    /\ Idle
    /\ \E student_secret \in {None, Some("s3cret")}, aipipe_token \in BOOLEAN, github_token \in BOOLEAN,
          github_username \in BOOLEAN :
         door = [NoDoor EXCEPT !.student_secret = student_secret,
                               !.aipipe_token = aipipe_token, !.github_token = github_token,
                               !.github_username = github_username]

DoorNext ==
    \/ \E body \in Bodies : handle_app_build_request(body)
    \/ run_builder_process
    \/ cleanup_temp_file
    \/ main
    \/ main_build
    \/ \E w \in Workers : Handler(w)
    \/ main_finally

DoorSpec == DoorInit /\ [][DoorNext]_vars

\* Builder processes one after the other, in which any statement may raise.
FaultNext ==
    \/ \E w \in Workers, r \in Requests :
         started < MaxFaultRuns /\ FirstRun(r) /\ build_app_alone(w, r)
    \/ \E w \in Workers, r \in Requests :
         started < MaxFaultRuns /\ FirstRun(r) /\ build_app_raises(w, r)
    \/ \E w \in Workers : Handler(w)
    \/ \E w \in Workers : Raise(w) \/ handler_except(w) \/ build_app_except(w)

FaultSpec == Init /\ [][FaultNext]_vars

\* Requests for one task that carry at most one attachment; round 1 and
\* round 2 have their own nonce and brief.
AttachRequests ==
    {r \in [task : {"t"}, round : Rounds, nonce : Nonces, brief : Briefs,
            checks : {Checks(b) : b \in Briefs},
            attachments : {<<>>} \cup {<<a>> : a \in Attachments}] :
        /\ (r.round = 1) <=> (r.nonce = "n1")
        /\ (r.nonce = "n1") <=> (r.brief = "b1")
        /\ r.checks = Checks(r.brief)}

\* Builder processes one after the other, on requests with attachments.
AttachNext ==
    \/ \E w \in Workers, r \in AttachRequests : started < MaxAttachRuns /\ build_app_alone(w, r)
    \/ \E w \in Workers : Handler(w)

\* The account holds no repository, or the repository of the task.
AttachInit == Init /\ repos["app-T"] = NoRepo

AttachSpec == AttachInit /\ [][AttachNext]_vars

\* One submitter sends round 1 under the task "t" and round 2 under the
\* task "T", each with its own nonce and brief, and retries them.
RetryRequests ==
    {r \in Requests : \/ r.round = 1 /\ r.task = "t" /\ r.nonce = "n1"
                      \/ r.round = 2 /\ r.task = "T" /\ r.nonce = "n2"}

\* Builder processes one after the other, on the requests of that submitter.
RetryNext ==
    \/ \E w \in Workers, r \in RetryRequests : started < MaxRetryRuns /\ build_app_alone(w, r)
    \/ \E w \in Workers : Handler(w)

\* The account holds no repository.
RetryInit == Init /\ repos = [n \in RepoNames |-> NoRepo]

RetrySpec == RetryInit /\ [][RetryNext]_vars

\* One submitter sends round 1 and round 2 of the task "t", each with its own
\* nonce and brief, and sends a request again while its run may be under way.
ResendRequests ==
    {r \in Requests : r.task = "t" /\ ((r.round = 1) <=> (r.nonce = "n1"))}

\* Builder processes that may overlap, on the requests of that submitter.
ResendNext ==
    \/ \E w \in Workers, r \in ResendRequests : started < MaxOverlapRuns /\ build_app(w, r)
    \/ \E w \in Workers : Handler(w)

ResendSpec == OverlapInit /\ [][ResendNext]_vars

\* The task "t" is built again while a run for it may be under way.
RebuildRequests == {r \in Requests : r.task = "t"}

\* The store is empty, or a round-1 build of "t" has gone through.
RebuildInit ==
    /\ \E built \in BOOLEAN :
         LET earlier == Built(CHOOSE r \in RebuildRequests : r.round = 1 /\ r.nonce = "n1")
         IN  /\ app_requests = IF built THEN earlier.app_requests ELSE <<>>
             /\ llm_responses = IF built THEN earlier.llm_responses ELSE <<>>
             /\ repos = IF built THEN earlier.repos ELSE [n \in RepoNames |-> NoRepo]
             /\ notifications = IF built THEN earlier.notifications ELSE <<>>
    /\ started = 0
    /\ door = NoDoor
    /\ Idle

\* Builder processes for "t" that may overlap.
RebuildNext ==
    \/ \E w \in Workers, r \in RebuildRequests : started < MaxOverlapRuns /\ build_app(w, r)
    \/ \E w \in Workers : Handler(w)

RebuildSpec == RebuildInit /\ [][RebuildNext]_vars

(***************************************************************************)
(* Properties.                                                             *)
(***************************************************************************)
Done(w) == pc[w] = "done"
Returned(w, value) == Done(w) /\ ret[w] = Some(value)

\* The step is a step of the run of worker w.
StepOf(w) == pc'[w] # pc[w] \/ loc'[w] # loc[w]

\* The rows of a table stored under exactly this task and round.
RowsOf(rows, task, round_num) ==
    {i \in 1..Len(rows) : rows[i].task = task /\ rows[i].round_num = round_num}

\* The notification of the run that finished last.
LastSent == notifications[Len(notifications)]

\* C1: with runs one after the other, after a round-1 run for a task the
\* store holds exactly one round-1 request of that task, and it carries the
\* brief (and the nonce) of that latest submission.
C1_LaterRound1SubmissionWins ==
    \A w \in Workers :
        Done(w) /\ req[w].round = 1 =>
            LET mine == RowsOf(app_requests, req[w].task, 1)
            IN  /\ Cardinality(mine) = 1
                /\ \A i \in mine : /\ app_requests[i].brief = req[w].brief
                                   /\ app_requests[i].nonce = req[w].nonce

\* A round-1 run has replaced the record of an earlier round-1 submission of
\* the same task, which had been notified under another nonce.
C1_Witness ==
    \E w \in Workers :
        /\ Done(w) /\ req[w].round = 1 /\ loc[w].existing
        /\ \E i \in 1..Len(notifications) :
             /\ notifications[i].request.task = req[w].task
             /\ notifications[i].request.round = 1
             /\ notifications[i].request.brief # req[w].brief

\* C2: a round-2 run that found the round-1 request and the round-1
\* response of its own task and returned True has written the repo_url and
\* the pages_url of that round-1 response (which are those of every round-1
\* response of the task that the store holds) to its round-2 response and to
\* the round-2 notification of the task, and the page it generated is in the
\* repository of that URL.
C2_Round2ReusesRound1Urls ==
    \A w \in Workers :
        /\ Returned(w, TRUE) /\ loc[w].path = "round2"
        /\ loc[w].round1_request[1].task = req[w].task
        /\ loc[w].round1_response[1].task = req[w].task
        => LET round1_response == loc[w].round1_response[1]
               first == RowsOf(llm_responses, req[w].task, 1)
               second == RowsOf(llm_responses, req[w].task, 2)
               sent == {n \in 1..Len(notifications) :
                          notifications[n].data.task = req[w].task /\ notifications[n].data.round = 2}
           IN  /\ round1_response.round_num = 1
               /\ second # {} /\ sent # {}
               /\ \A i \in first :
                    /\ llm_responses[i].repo_url = round1_response.repo_url
                    /\ llm_responses[i].pages_url = round1_response.pages_url
               /\ \A j \in second :
                    /\ llm_responses[j].repo_url = round1_response.repo_url
                    /\ llm_responses[j].pages_url = round1_response.pages_url
                    /\ repos[RepoNameOfUrl(round1_response.repo_url)].files["index.html"]
                         = llm_responses[j].generated_code
               /\ \A n \in sent :
                    /\ notifications[n].request = req[w]
                    /\ notifications[n].data.repo_url = round1_response.repo_url
                    /\ notifications[n].data.pages_url = round1_response.pages_url

\* A round-2 run has revised the application of a task whose round 1 was
\* recorded by the fallback Create path.
C2_Witness ==
    \E w \in Workers :
        /\ Returned(w, TRUE) /\ loc[w].path = "round2"
        /\ loc[w].round1_request[1].task = req[w].task
        /\ loc[w].round1_response[1].task = req[w].task
        /\ loc[w].round1_response[1].pages_url # get_pages_url(RepoName(req[w].task))

\* C3 as claimed: once round 1 of a task has succeeded, a later round-2 run
\* for the task in which no provider call fails ends on the repository URL
\* and the serving URL of that round 1.
C3_Round2ResolvesToRound1Urls ==
    \A w \in Workers : \A i \in 1..Len(notifications) :
        /\ Done(w) /\ req[w].round = 2 /\ ~loc[w].fault
        /\ notifications[i].request.task = req[w].task
        /\ notifications[i].request.round = 1
        => /\ ret[w] = Some(TRUE)
           /\ loc[w].repo_url = notifications[i].data.repo_url
           /\ loc[w].pages_url = notifications[i].data.pages_url

\* C4: a round-2 run that found no round-1 row of its task and no
\* repository app-{task} takes the Create path and stores its request as
\* round 1; when it returns True its response is stored as round 1, the
\* repository holds its page, and the notification says round 1.
C4_UnknownTaskRecordedAsRound1 ==
    \A w \in Workers :
        /\ Done(w) /\ req[w].round = 2
        /\ loc[w].round1_request = None /\ loc[w].round1_response = None
        /\ loc[w].existing_repo = None /\ ~loc[w].fault
        => /\ loc[w].path = "fallback_create"
           /\ \E i \in RowsOf(app_requests, req[w].task, 1) :
                app_requests[i].nonce = req[w].nonce
           /\ RowsOf(app_requests, req[w].task, 2) = {}
           /\ RowsOf(llm_responses, req[w].task, 2) = {}
           /\ ret[w] = Some(TRUE) =>
                /\ \E j \in RowsOf(llm_responses, req[w].task, 1) :
                     /\ llm_responses[j].generated_code = loc[w].code
                     /\ llm_responses[j].repo_url = HtmlUrl(RepoName(req[w].task))
                /\ repos[RepoName(req[w].task)].files["index.html"] = loc[w].code
                /\ LastSent.request = req[w]
                /\ LastSent.data.round = 1

\* A round-2 run for an unknown task has created the application and
\* returned True.
C4_Witness ==
    \E w \in Workers :
        /\ Returned(w, TRUE) /\ req[w].round = 2
        /\ loc[w].round1_request = None /\ loc[w].round1_response = None
        /\ loc[w].existing_repo = None

\* C5 as claimed: a round-2 run that found no round-1 row of its task but
\* found the repository app-{task}, and in which no provider call fails,
\* updates that repository, returns True and notifies with round 2 and the
\* URL of that repository.
C5_ExistingRepoIsRevised ==
    \A w \in Workers :
        /\ Done(w) /\ req[w].round = 2
        /\ loc[w].round1_request = None /\ loc[w].round1_response = None
        /\ loc[w].existing_repo # None /\ ~loc[w].fault
        => /\ ret[w] = Some(TRUE)
           /\ repos[loc[w].existing_repo[1]].files["index.html"] = loc[w].code
           /\ LastSent.request = req[w]
           /\ LastSent.data.round = 2
           /\ LastSent.data.repo_url = HtmlUrl(loc[w].existing_repo[1])

\* The response row that the run of worker w has stored.
StoredResponse(w) ==
    /\ loc[w].commit_sha # 0
    /\ \E i \in RowsOf(llm_responses, req[w].task, loc[w].report) :
         /\ llm_responses[i].generated_code = loc[w].code
         /\ llm_responses[i].commit_sha = loc[w].commit_sha

\* C6 as claimed: every run of build_app that has ended has sent at least
\* one POST.
C6_EveryRunNotifies ==
    \A w \in Workers : Done(w) => loc[w].posts >= 1

\* C6 as amended: a run that has stored its response has sent at least one
\* POST, also when enabling public serving failed; a run that ended without
\* storing its response returned False and sent no POST.
C6_RunsThatStoreTheirResponseNotify ==
    \A w \in Workers :
        Done(w) =>
            /\ StoredResponse(w) => loc[w].posts >= 1 /\ LastSent.request = req[w]
            /\ ~StoredResponse(w) => loc[w].posts = 0 /\ ret[w] = Some(FALSE)

\* A run in which enabling public serving failed has notified all the same.
C6_Witness ==
    \E w \in Workers :
        Done(w) /\ loc[w].fault /\ loc[w].posts >= 1 /\ StoredResponse(w)

\* C7 as claimed, for one request handed in twice: no two notification
\* sequences come from equal requests (hence carry the same nonce).
C7_OneSequencePerNonce ==
    \A i, j \in 1..Len(notifications) :
        i < j => notifications[i].request # notifications[j].request

\* C7 as amended: no two notification sequences report the same task and
\* the same round, whatever the interleaving of the runs.
C7_OneSequencePerTaskAndReportedRound ==
    \A i, j \in 1..Len(notifications) :
        i < j => ~ /\ notifications[i].data.task = notifications[j].data.task
                   /\ notifications[i].data.round = notifications[j].data.round

\* One request handed in twice has been notified twice under its nonce,
\* first as round 1 and then as round 2.
C7_Witness ==
    \E i, j \in 1..Len(notifications) :
        /\ i < j
        /\ notifications[i].request = notifications[j].request
        /\ notifications[i].data.nonce = notifications[j].data.nonce
        /\ notifications[i].data.round = 1
        /\ notifications[j].data.round = 2

\* C8 as claimed: a run returns True only if one of its POSTs was answered
\* 200, and a run whose attempts were all used up returns False.
C8_TrueOnlyIfNotified ==
    \A w \in Workers :
        Done(w) =>
            /\ ret[w] = Some(TRUE) => loc[w].notified = Some(TRUE)
            /\ loc[w].notified = Some(FALSE) => ret[w] = Some(FALSE)

\* C8 as amended: with runs one after the other, a run returns True only if
\* publish gave a revision id, the repository holds every file of the file
\* set that the run published (its generated files and its resolved
\* attachments, an attachment taking the place of a generated file of its
\* name), the response with the generated page is stored and at least one
\* POST was sent.  The index.html of the repository is the generated page,
\* or the text of a resolved attachment named index.html.
C8_TrueOnlyIfDeliveredAndPosted ==
    \A w \in Workers :
        Returned(w, TRUE) =>
            LET files == repos[loc[w].repo[1]].files
                attached == loc[w].processed_files
                pages == {i \in 1..Len(attached) :
                             /\ Join(attached[i].name) = "index.html"
                             /\ AttachmentContent(attached, attached[i]) # None}
            IN  /\ loc[w].commit_sha # 0
                /\ \A f \in DOMAIN FilesOf(w) : files[f] = FilesOf(w)[f]
                /\ IF pages = {} THEN files["index.html"] = loc[w].code
                   ELSE \E i \in pages :
                           files["index.html"] = AttachmentContent(attached, attached[i])[1]
                /\ StoredResponse(w)
                /\ loc[w].posts >= 1
                /\ loc[w].notified # None

\* A round-1 run whose request carries an attachment named index.html has
\* returned True although every POST failed; the index.html of its
\* repository is the text of the attachment and not the generated page.
C8_Witness ==
    \E w \in Workers :
        /\ Returned(w, TRUE) /\ loc[w].path = "round1"
        /\ loc[w].notified = Some(FALSE)
        /\ loc[w].posts = DefaultMaxRetries
        /\ req[w].attachments # <<>>
        /\ repos[loc[w].repo[1]].files["index.html"] = <<"h", "i">>
        /\ loc[w].code # <<"h", "i">>

\* C9: a run whose publish succeeded and whose response is stored returns
\* True, also when notify_evaluation used up its attempts and returned False.
C9_NotificationFailureKeepsOutcome ==
    \A w \in Workers :
        Done(w) /\ StoredResponse(w) =>
            /\ ret[w] = Some(TRUE)
            /\ loc[w].notified \in {Some(TRUE), Some(FALSE)}

\* A run of the fallback Create path has returned True although
\* notify_evaluation returned False.
C9_Witness ==
    \E w \in Workers :
        /\ Returned(w, TRUE) /\ loc[w].path = "fallback_create"
        /\ StoredResponse(w)
        /\ loc[w].notified = Some(FALSE)

\* C10: while every attempt of notify_evaluation fails, the call goes on
\* until it has sent exactly max_retries POSTs, sleeping 1, 2, 4, ... seconds
\* between them (max_retries - 1 sleeps, none after the last attempt), and
\* then it returns False.  The attempts made so far have all failed when the
\* last outcome is not a 200, since a 200 ends the call.
C10_ExhaustedRetries ==
    \A w \in Workers :
        /\ loc[w].max_retries >= 1
        /\ loc[w].response # Some("200")
        => /\ loc[w].posts <= loc[w].max_retries
           /\ loc[w].response = None <=> loc[w].posts = 0
           /\ Done(w) <=> loc[w].posts = loc[w].max_retries
           /\ loc[w].sleeps = [i \in 1..Min({loc[w].posts, loc[w].max_retries - 1}) |-> 2 ^ (i - 1)]
           /\ loc[w].notified = IF Done(w) THEN Some(FALSE) ELSE None

\* notify_evaluation has used up five attempts.
C10_Witness ==
    \E w \in Workers :
        /\ Done(w)
        /\ loc[w].max_retries = 5
        /\ loc[w].response = Some("error")
        /\ loc[w].posts = 5
        /\ loc[w].notified = Some(FALSE)
        /\ loc[w].sleeps = <<1, 2, 4, 8>>

\* C11: when the endpoint answers 200 for the first time on attempt k,
\* notify_evaluation has sent exactly k POSTs, slept only after the k - 1
\* attempts before it (none after the 200) and returned True; any other
\* outcome, a 201 included, counts as a failed attempt: the call does not
\* return True on it, and sleeps unless the attempt was the last one.
C11_SuccessStopsTheSequence ==
    \A w \in Workers :
        /\ loc[w].response = Some("200")
            => LET k == loc[w].posts
               IN  /\ Done(w)
                   /\ k \in 1..loc[w].max_retries
                   /\ loc[w].sleeps = [i \in 1..(k - 1) |-> 2 ^ (i - 1)]
                   /\ loc[w].notified = Some(TRUE)
        /\ loc[w].response \in {Some(o) : o \in PostOutcomes \ {"200"}}
            => /\ loc[w].notified # Some(TRUE)
               /\ Len(loc[w].sleeps) = Min({loc[w].posts, loc[w].max_retries - 1})
        /\ loc[w].notified = Some(TRUE) => loc[w].response = Some("200")

\* notify_evaluation has stopped at the 200 of its third attempt, after two
\* failed attempts, with attempts left.
C11_Witness ==
    \E w \in Workers :
        /\ Done(w)
        /\ loc[w].max_retries = 5
        /\ loc[w].response = Some("200")
        /\ loc[w].posts = 3
        /\ loc[w].sleeps = <<1, 2>>
        /\ loc[w].notified = Some(TRUE)

\* The steps that call generate_code_with_ai, and what they call it with.
GenerationSteps == {"r1_generate", "fb_generate", "r2_generate"}
BriefGiven(w) ==
    IF pc[w] = "r2_generate" THEN CombinedBrief(loc[w].round1_request[1].brief, req[w].brief)
    ELSE Text(req[w].brief)
RoundGiven(w) == IF pc[w] = "fb_generate" THEN 1 ELSE req[w].round

\* C12: whatever the generation provider does, the step that generates leaves
\* the provider's page or the fixed error page as the generated code and
\* goes on to the repository; a run that returns True has published its
\* generated code as index.html and has notified.
C12_GenerationFailureNeverAborts ==
    [][\A w \in Workers :
         /\ pc[w] \in GenerationSteps /\ pc'[w] # pc[w] =>
              /\ loc'[w].code \in {ProviderCode(BriefGiven(w), RoundGiven(w)),
                                   _get_fallback_calculator}
              /\ pc'[w] \in {"r1_create_repo", "fb_create_repo", "r2_refresh_response"}
         /\ pc'[w] = "done" /\ ret'[w] = Some(TRUE) =>
              /\ repos'[loc'[w].repo[1]].files["index.html"] = loc'[w].code
              /\ loc'[w].posts >= 1
      ]_vars

\* C13: with runs one after the other, a run that reached repository
\* creation and ended without a repository handle or without a revision id
\* has returned False, has sent no POST, and the store holds no response for
\* its task and the round it records.
C13_NoHandleOrNoRevisionAborts ==
    \A w \in Workers :
        /\ Done(w) /\ loc[w].processed_attachments = "bound"
        /\ loc[w].repo = None \/ loc[w].commit_sha = 0
        => /\ ret[w] = Some(FALSE)
           /\ loc[w].posts = 0 /\ loc[w].notified = None
           /\ RowsOf(llm_responses, req[w].task, loc[w].report) = {}

\* A run has ended at publish: the repository was created and the page was
\* written, but not every file.
C13_Witness ==
    \E w \in Workers :
        /\ Returned(w, FALSE) /\ loc[w].path = "round1"
        /\ loc[w].repo # None /\ loc[w].commit_sha = 0
        /\ repos[loc[w].repo[1]].files["index.html"] = loc[w].code
        /\ repos[loc[w].repo[1]].files["README.md"] = Absent
        /\ loc[w].posts = 0

\* C14 as claimed: a run in which enable_pages returned False has returned
\* False and has sent no POST.
C14_PagesFailureIsFatal ==
    \A w \in Workers :
        Done(w) /\ loc[w].enabled = Some(FALSE) =>
            /\ ret[w] = Some(FALSE)
            /\ loc[w].posts = 0

\* The files of its file set that the loop of worker w is done with.
Handled(w) == {KeysOf(w)[i] : i \in 1..loc[w].n}

\* The files of its file set that the run of worker w has in its repository.
Written(w) ==
    {f \in DOMAIN FilesOf(w) : repos[RepoNameOfUrl(loc[w].repo_url)].files[f] = FilesOf(w)[f]}

\* The loop of commit_and_push is over for the run of worker w.
LoopOver(w) == pc[w] \in {"r1_commit", "fb_commit"} /\ loc[w].n = Len(KeysOf(w))

\* C15 as claimed: at publish, after a partial write (a file written, a file
\* failed), commit_and_push yields a revision id, and the run goes on,
\* whenever the fetch of the latest revision answers.
C15_PartialWriteGoesOn ==
    \A w \in Workers :
        LoopOver(w) /\ ~loc[w].success /\ Written(w) # {} =>
            commit_and_push(loc[w].success, get_latest_commit_sha(loc[w].repo[1], TRUE)) # 0

\* C15 as amended: publish yields a revision id only when every file was
\* written and the revision was read, on the Create paths and on the Revise
\* path; a run that returns True has every file of its file set in the
\* repository.
C15_AnyFailedWriteAborts ==
    \A w \in Workers :
        /\ pc[w] \in {"r1_commit", "fb_commit", "r2_update"} /\ loc[w].repo # None /\ loc[w].success =>
             Handled(w) \subseteq Written(w)
        /\ LoopOver(w) =>
             \A providerOk \in BOOLEAN :
                 commit_and_push(loc[w].success, get_latest_commit_sha(loc[w].repo[1], providerOk)) # 0
                     <=> (Written(w) = DOMAIN FilesOf(w) /\ providerOk)
        /\ pc[w] \in {"r2_get_repo", "r2_pages"} =>
             /\ loc[w].success /\ loc[w].commit_sha # 0
             /\ Written(w) = DOMAIN FilesOf(w)
        /\ Returned(w, TRUE) =>
             \A f \in DOMAIN FilesOf(w) : repos[loc[w].repo[1]].files[f] = FilesOf(w)[f]
        /\ Done(w) /\ loc[w].repo_url # None
                   /\ (\E f \in DOMAIN FilesOf(w) :
                          repos[RepoNameOfUrl(loc[w].repo_url)].files[f] # FilesOf(w)[f]) =>
             /\ ret[w] = Some(FALSE)
             /\ loc[w].commit_sha = 0
             /\ loc[w].posts = 0

\* A round-2 run has written the updated page but not the README, and has
\* returned False without notifying.
C15_Witness ==
    \E w \in Workers :
        /\ Returned(w, FALSE) /\ loc[w].path = "round2"
        /\ loc[w].repo_url # None
        /\ repos[RepoNameOfUrl(loc[w].repo_url)].files["index.html"] = loc[w].code
        /\ repos[RepoNameOfUrl(loc[w].repo_url)].files["README.md"] # FilesOf(w)["README.md"]
        /\ loc[w].commit_sha = 0
        /\ loc[w].posts = 0

\* C16: whatever raises, a run of build_app that has ended has returned True
\* or False, and its session, if it opened one, is closed; a run that is
\* still inside a handler has an open session and has returned nothing.
C16_AlwaysABooleanAndSessionClosed ==
    \A w \in Workers :
        /\ Done(w) =>
             /\ ret[w] \in {Some(TRUE), Some(FALSE)}
             /\ loc[w].db \in {"closed", "none"}
             /\ loc[w].db = "none" => ret[w] = Some(FALSE) /\ loc[w].path = ""
        /\ pc[w] \in HandlerSteps \cup {"r1_pages", "fb_pages", "r2_pages", "notify", "handler_except"} =>
             ret[w] = None /\ loc[w].db = "open"

\* The insert of the LLM response has raised after the files were published:
\* the run has returned False with its session closed.
C16_Witness ==
    \E w \in Workers :
        /\ Returned(w, FALSE)
        /\ loc[w].db = "closed"
        /\ loc[w].commit_sha # 0 /\ loc[w].enabled = Some(TRUE)
        /\ ~StoredResponse(w)
        /\ loc[w].posts = 0

\* The steps that insert into app_requests, and the round they insert.
InsertSteps == {"r1_insert", "fb_insert", "r2_insert"}
RoundInserted(w) == IF pc[w] = "fb_insert" THEN 1 ELSE req[w].round

\* C17: in every interleaving of overlapping runs no two rows of app_requests
\* have the same task and round; an insert that would make two such rows
\* leaves the table as it is and the run returns False.
C17_OneRequestPerTaskAndRound ==
    [][/\ \A i, j \in 1..Len(app_requests') :
            i < j => ~ /\ app_requests'[i].task = app_requests'[j].task
                       /\ app_requests'[i].round_num = app_requests'[j].round_num
       /\ \A w \in Workers :
            /\ pc[w] \in InsertSteps /\ pc'[w] # pc[w]
            /\ ViolatesUnique(app_requests, req[w].task, RoundInserted(w))
            => /\ app_requests' = app_requests
               /\ pc'[w] = "done" /\ ret'[w] = Some(FALSE)
      ]_vars

\* Two round-1 runs for one task have overlapped: both found no earlier
\* request, one inserted, and the insert of the other failed.
C17_Witness ==
    \E w \in Workers :
        /\ Returned(w, FALSE) /\ loc[w].path = "round1"
        /\ ~loc[w].existing /\ loc[w].report = 0
        /\ Cardinality(RowsOf(app_requests, req[w].task, 1)) = 1
        /\ \E i \in RowsOf(app_requests, req[w].task, 1) : app_requests[i].nonce # req[w].nonce

\* C18 as claimed: a round-2 run that found the round-1 request or the
\* round-1 response missing and no repository app-{task}, and in which no
\* provider call failed, has taken the Create path, has recorded its request
\* and its response as round 1, has notified round 1 and has returned True.
C18_MissingHistoryIsRecovered ==
    \A w \in Workers :
        /\ Done(w) /\ req[w].round = 2
        /\ loc[w].round1_request = None \/ loc[w].round1_response = None
        /\ loc[w].existing_repo = None /\ ~loc[w].fault
        => /\ loc[w].path = "fallback_create"
           /\ ret[w] = Some(TRUE)
           /\ \E i \in RowsOf(app_requests, req[w].task, 1) :
                app_requests[i].nonce = req[w].nonce
           /\ \E j \in RowsOf(llm_responses, req[w].task, 1) :
                llm_responses[j].generated_code = loc[w].code
           /\ LastSent.request = req[w]
           /\ LastSent.data.round = 1

\* The responses of the front door, and how many requests it handed on.
Responses == {door.responses[i] : i \in 1..Len(door.responses)}
Handed == {i \in 1..Len(door.responses) : door.responses[i].handed}

\* C19: a request whose secret is not the configured STUDENT_SECRET is
\* answered 403 (422 if it is malformed as well), and nothing is handed to
\* the builder for it: no request file is written, no process is started.
C19_WrongSecretIsRejected ==
    /\ \A e \in Responses :
         e.body.secret # None /\ e.body.secret # door.student_secret =>
             /\ e.status = IF Validates(e.body) THEN 403 ELSE 422
             /\ ~e.handed
    /\ Len(door.tasks) + Len(door.files) = Cardinality(Handed)
    /\ Len(door.processes) <= Len(door.files)

\* A well-formed request with a wrong secret has been answered 403, with the
\* secret and both tokens configured.
C19_Witness ==
    \E e \in Responses :
        /\ Validates(e.body)
        /\ e.body.secret = Some("wrong") /\ door.student_secret = Some("s3cret")
        /\ door.aipipe_token /\ door.github_token
        /\ e.status = 403
        /\ door.files = <<>> /\ door.processes = <<>>

\* C20: a request with a required field missing or with a round other than
\* 1 and 2 is answered 422 whatever its secret, and nothing is handed to the
\* builder for it; every request file written and every builder process
\* started carries round 1 or 2.
C20_MalformedIsRejectedFirst ==
    /\ \A e \in Responses :
         (\E f \in RequiredFields : e.body[f] = None) \/ e.body.round[1] \notin Rounds =>
             /\ e.status = 422
             /\ ~e.handed
    /\ \A i \in 1..Len(door.files) : door.files[i].round \in Rounds
    /\ \A i \in 1..Len(door.processes) : door.processes[i].round \in Rounds

\* A request with round 3 and a wrong secret has been answered 422, not 403.
C20_Witness ==
    \E e \in Responses :
        /\ \A f \in RequiredFields : e.body[f] # None
        /\ e.body.round = Some(3)
        /\ e.body.secret = Some("wrong") /\ door.student_secret = Some("s3cret")
        /\ e.status = 422
        /\ door.files = <<>>

\* C21: a well-formed request with the configured secret, with both tokens
\* configured, is answered 200 "accepted" in the step that adds its one
\* background task, before that task has run (no request file, no builder
\* process yet); the task then runs once and starts one builder process on
\* that request, or logs the error when the process cannot be started: there
\* are as many units of work on a request as accepted answers to it.
C21_AcceptedAtOnceAndHandedOnce ==
    [][/\ \A i \in 1..Len(door'.responses) :
            LET e == door'.responses[i]
            IN  /\ Validates(e.body)
                /\ Some(e.body.secret[1]) = door.student_secret
                /\ door.aipipe_token /\ door.github_token
                => /\ e.status = 200 /\ e.text = "accepted"
                   /\ Cardinality({j \in 1..Len(door'.tasks) : door'.tasks[j] = DataDict(e.body)})
                        + Cardinality({j \in 1..Len(door'.files) : door'.files[j] = DataDict(e.body)})
                        = Cardinality({k \in 1..Len(door'.responses) :
                                          /\ door'.responses[k].status = 200
                                          /\ DataDict(door'.responses[k].body) = DataDict(e.body)})
                   /\ Cardinality({j \in 1..Len(door'.processes) : door'.processes[j] = DataDict(e.body)})
                        + Cardinality({j \in 1..Len(door'.errors) : door'.errors[j] = DataDict(e.body)})
                        = Cardinality({j \in 1..Len(door'.files) : door'.files[j] = DataDict(e.body)})
       /\ Len(door'.responses) > Len(door.responses) =>
            /\ door'.files = door.files
            /\ door'.processes = door.processes
       /\ Len(door'.tasks) + Len(door'.files) = Cardinality({i \in 1..Len(door'.responses) : door'.responses[i].status = 200})
      ]_vars

\* An accepted request has been answered and its builder process started.
C21_Witness ==
    \E e \in Responses :
        /\ e.status = 200 /\ e.text = "accepted"
        /\ door.tasks = <<>>
        /\ door.files = <<DataDict(e.body)>>
        /\ door.processes = <<DataDict(e.body)>>

\* The steps that commit the LLM response, and the round they record.
StoreSteps == {"r1_store", "fb_store", "r2_store"}

\* C22: in every run, overlapping runs included, the LLM response is
\* committed by a step that holds the revision id which publish returned, and
\* carries that id; notify_evaluation is entered only from that step, its
\* first POST hands the endpoint a payload with the same id and its later
\* POSTs repeat it; a step of a run that has no revision id adds no response
\* and sends no POST, and a run that ends without one has sent none.
C22_PublishThenRecordThenNotify ==
    [][\A w \in Workers :
         /\ pc[w] \in StoreSteps /\ pc'[w] # pc[w] =>
              /\ loc[w].commit_sha # 0
              /\ loc[w].posts = 0
              /\ Len(llm_responses') = Len(llm_responses) + 1
              /\ SubSeq(llm_responses', 1, Len(llm_responses)) = llm_responses
              /\ llm_responses'[Len(llm_responses')].task = req[w].task
              /\ llm_responses'[Len(llm_responses')].commit_sha = loc[w].commit_sha
              /\ notifications' = notifications
              /\ pc'[w] = "notify"
         /\ pc'[w] = "notify" /\ pc[w] # "notify" => pc[w] \in StoreSteps
         /\ pc[w] = "notify" /\ StepOf(w) =>
              /\ loc[w].commit_sha # 0
              /\ loc'[w].commit_sha = loc[w].commit_sha
              /\ llm_responses' = llm_responses
              /\ loc'[w].posts = loc[w].posts + 1
              /\ IF loc[w].posts = 0
                 THEN /\ Len(notifications') = Len(notifications) + 1
                      /\ notifications'[Len(notifications')].request = req[w]
                      /\ notifications'[Len(notifications')].data.commit_sha = loc[w].commit_sha
                 ELSE notifications' = notifications
         /\ StepOf(w) /\ pc[w] \notin StoreSteps \cup {"notify"} =>
              /\ Len(llm_responses') <= Len(llm_responses)
              /\ notifications' = notifications
              /\ loc'[w].posts = 0
         /\ pc'[w] = "done" /\ loc'[w].commit_sha = 0 => loc'[w].posts = 0
      ]_vars

\* A run of the Revise path has published, stored its response under the
\* revision id and notified with it, while the other run was under way.
C22_Witness ==
    \E w \in Workers :
        /\ Returned(w, TRUE) /\ loc[w].path = "round2"
        /\ \E v \in Workers : v # w /\ Running(v)
        /\ loc[w].commit_sha # 0 /\ loc[w].posts >= 1
        /\ \E i \in 1..Len(llm_responses) :
              /\ llm_responses[i].task = req[w].task /\ llm_responses[i].round_num = 2
              /\ llm_responses[i].commit_sha = loc[w].commit_sha
        /\ \E i \in 1..Len(notifications) :
              /\ notifications[i].request = req[w]
              /\ notifications[i].data.commit_sha = loc[w].commit_sha

\* C23: in every reachable state of overlapping runs (runs one after the
\* other included), no two rows of llm_responses have the same task and the
\* same round.
C23_OneResponsePerTaskAndRound ==
    \A i, j \in 1..Len(llm_responses) :
        i < j => ~ /\ llm_responses[i].task = llm_responses[j].task
                   /\ llm_responses[i].round_num = llm_responses[j].round_num

\* Two round-1 runs for one task have overlapped and both have stored their
\* request (the second after deleting the first); one has stored the
\* response, the other was refused the repository and stored none.
C23_Witness ==
    \E w, v \in Workers :
        /\ w # v /\ req[w].task = req[v].task
        /\ Returned(w, TRUE) /\ loc[w].path = "round1"
        /\ Returned(v, FALSE) /\ loc[v].path = "round1"
        /\ loc[v].report = 1 /\ loc[v].repo = None /\ ~loc[v].fault
        /\ Cardinality(RowsOf(llm_responses, req[w].task, 1)) = 1

\* C24 as claimed: the pages_url of every LLM response and of every
\* notification is the serving URL https://{username}.github.io/{name}/ of
\* the repository named by the repo_url next to it.
C24_PagesUrlIsServingUrl ==
    /\ \A i \in 1..Len(llm_responses) :
         llm_responses[i].pages_url = get_pages_url(RepoNameOfUrl(llm_responses[i].repo_url))
    /\ \A i \in 1..Len(notifications) :
         notifications[i].data.pages_url = get_pages_url(RepoNameOfUrl(notifications[i].data.repo_url))

\* C25: the deletion of a round-1 resubmission for a task removes the
\* round-1 rows stored under that task from both tables and leaves every
\* other row (round-2 rows of the task, rows of other tasks) as it was, in
\* the same order; it touches neither the repositories nor the notifications.
C25_DeletionRemovesOnlyRound1OfTask ==
    [][\A w \in Workers :
         pc[w] = "r1_delete" /\ pc'[w] # pc[w] =>
             LET Stays(row) == ~(row.task = req[w].task /\ row.round_num = 1)
             IN  /\ app_requests' = SelectSeq(app_requests, Stays)
                 /\ llm_responses' = SelectSeq(llm_responses, Stays)
                 /\ repos' = repos /\ notifications' = notifications
      ]_vars

\* A round-1 resubmission has deleted the round-1 rows of its task, and the
\* round-2 request and the round-2 response of the task are still there.
C25_Witness ==
    \E w \in Workers :
        /\ pc[w] = "r1_insert" /\ loc[w].existing
        /\ RowsOf(app_requests, req[w].task, 1) = {}
        /\ RowsOf(llm_responses, req[w].task, 1) = {}
        /\ RowsOf(app_requests, req[w].task, 2) # {}
        /\ RowsOf(llm_responses, req[w].task, 2) # {}

\* C26: no step of a round-2 run, whichever path it takes and however it
\* ends, removes or changes a round-1 row: the round-1 rows of both tables
\* before the step are, in the same order and with the same fields, the
\* first round-1 rows after it.
C26_Round2KeepsRound1Rows ==
    [][\A w \in Workers :
         req[w].round = 2 /\ Running(w) /\ StepOf(w) =>
             LET IsRound1(row) == row.round_num = 1
                 before == SelectSeq(app_requests, IsRound1)
                 after == SelectSeq(app_requests', IsRound1)
                 responses_before == SelectSeq(llm_responses, IsRound1)
                 responses_after == SelectSeq(llm_responses', IsRound1)
             IN  /\ Len(after) >= Len(before)
                 /\ SubSeq(after, 1, Len(before)) = before
                 /\ Len(responses_after) >= Len(responses_before)
                 /\ SubSeq(responses_after, 1, Len(responses_before)) = responses_before
      ]_vars

\* A round-2 run has found a round-1 request without a response, has taken
\* the fallback path and has failed on the insert; the round-1 request that
\* was in its way is still stored.
C26_Witness ==
    \E w \in Workers :
        /\ Returned(w, FALSE) /\ req[w].round = 2
        /\ loc[w].path = "fallback_create"
        /\ loc[w].round1_request # None /\ loc[w].round1_response = None
        /\ \E i \in RowsOf(app_requests, req[w].task, 1) :
              app_requests[i] = loc[w].round1_request[1]

\* C27 as claimed: a step of the Revise path that updates the repository
\* changes no file but index.html, README.md and the files named after the
\* processed attachments, and it leaves the LICENSE file of every repository
\* as it was.
C27_ReviseNeverWritesLicense ==
    [][\A w \in Workers :
         pc[w] = "r2_update" /\ StepOf(w) =>
             \A name \in RepoNames :
                 /\ \A f \in Paths :
                      repos'[name].files[f] # repos[name].files[f] =>
                          f \in {"index.html", "README.md"}
                                \cup {Join(loc'[w].processed_files[i].name) :
                                         i \in 1..Len(loc'[w].processed_files)}
                 /\ repos'[name].files["LICENSE"] = repos[name].files["LICENSE"]
      ]_vars

\* C28: the step of the Revise path that generates hands the generator a
\* brief made of the brief of the round-1 request as the handler reads it
\* (a round-1 request of the task), then the brief of
\* the request, each under its heading, then the instruction to keep the
\* existing functionality (the provider's page records the brief it was
\* given); the combined checks are the checks of that round-1 request
\* followed by the checks of the request; and the round-2 request stored for
\* the task has the brief and the checks of the request itself.
C28_CombinedBriefAndChecks ==
    [][\A w \in Workers :
         pc[w] = "r2_generate" /\ pc'[w] # pc[w] =>
             LET round1_request == loc[w].round1_request[1]
                 code == loc'[w].code
                 given == SubSeq(code, 3, Len(code))
             IN  /\ round1_request.round_num = 1 /\ ILike(round1_request.task, req[w].task)
                 /\ code # _get_fallback_calculator =>
                      /\ code[1] = "html" /\ code[2] = "2"
                      /\ Len(given) = 5
                      /\ given[1] = "ORIGINAL REQUEST (Round 1):"
                      /\ given[2] = round1_request.brief
                      /\ given[3] = "REVISION REQUEST (Round 2):"
                      /\ given[4] = req[w].brief
                      /\ given[5] = "Please update the existing application to include the new requirements while maintaining all existing functionality."
                 /\ loc'[w].combined_checks = round1_request.checks \o req[w].checks
                 /\ Len(loc'[w].combined_checks) = Len(round1_request.checks) + Len(req[w].checks)
                 /\ \E i \in RowsOf(app_requests', req[w].task, 2) :
                      /\ app_requests'[i].brief = req[w].brief
                      /\ app_requests'[i].checks = req[w].checks
      ]_vars

\* A round-2 run has revised the application of a round 1 that had another
\* brief: the page was generated from both briefs, and the combined checks
\* hold the check that the two rounds share twice.
C28_Witness ==
    \E w \in Workers :
        /\ Returned(w, TRUE) /\ loc[w].path = "round2"
        /\ loc[w].round1_request[1].brief = "b1" /\ req[w].brief = "b2"
        /\ loc[w].code = <<"html", "2", "ORIGINAL REQUEST (Round 1):", "b1",
                           "REVISION REQUEST (Round 2):", "b2",
                           "Please update the existing application to include the new requirements while maintaining all existing functionality.">>
        /\ loc[w].combined_checks = <<"c1", "c2", "c2", "c3">>

\* C29: on every path, an enable request answered 422 makes enable_pages
\* return True and any other provider error makes it return False; in a
\* round-2 run the request answered 422 changes nothing in the repositories
\* and the run goes on to store its generated code.
C29_EnableAgainIsNoOp ==
    [][\A w \in Workers :
         pc[w] \in {"r1_pages", "fb_pages", "r2_pages"} /\ pc'[w] # pc[w] =>
             /\ loc'[w].status = 422 => loc'[w].enabled = Some(TRUE)
             /\ loc'[w].status = 500 => loc'[w].enabled = Some(FALSE)
             /\ pc[w] = "r2_pages" /\ loc'[w].status = 422 =>
                    /\ repos' = repos
                    /\ pc'[w] = "r2_store"
                    /\ ~loc'[w].fault
      ]_vars

\* A round-2 run whose enable request was answered 422, serving being on
\* since round 1, has returned True.
C29_Witness ==
    \E w \in Workers :
        /\ Returned(w, TRUE) /\ loc[w].path = "round2"
        /\ loc[w].status = 422 /\ loc[w].enabled = Some(TRUE)
        /\ repos[loc[w].repo[1]].pages

\* C30: (1) when a run has published its files and goes on, every attachment
\* of the request that is a base64 data URI of MIME type text/plain whose
\* payload decodes is in the repository, under its name (with ".txt" added
\* when the name does not end in "txt"), as a text that has the bytes of the
\* decoded payload one for one; and (2) for an attachment that is not a data
\* URI, or whose payload does not decode, no exchange of the publish step
\* writes a file under its name.
C30_TextAttachmentRoundTrip ==
    [][\A w \in Workers :
         /\ pc[w] \in {"r1_commit", "fb_commit", "r2_update"} /\ StepOf(w)
         => \A n \in 1..Len(req[w].attachments), name \in RepoNames :
              LET a == req[w].attachments[n]
                  files == repos'[name].files
                  before == repos[name].files
                  published_all == /\ pc'[w] \in {"r1_pages", "fb_pages", "r2_get_repo"}
                                   /\ loc'[w].repo = Some(name)
                  prefix == <<"data:">> \o TextPlain \o <<";", "base64", ",">>
                  isTextBase64 == StartsWith(a.url, prefix)
                  payload == SubSeq(a.url, Len(prefix) + 1, Len(a.url))
                  extended == a.name \o <<".", "txt">>
                  published == IF EndsWith(a.name, <<"txt">>) THEN Join(a.name) ELSE Join(extended)
              IN  /\ published_all /\ isTextBase64 /\ b64decode(payload) # None =>
                       LET decoded == b64decode(payload)[1]
                       IN  /\ Len(files[published]) = Len(decoded)
                           /\ \A i \in 1..Len(decoded) :
                                 /\ decoded[i] \in DOMAIN Chr
                                 /\ files[published][i] = Chr[decoded[i]]
                  /\ \/ ~StartsWith(a.url, <<"data:">>)
                     \/ \A i \in 1..Len(a.url) : a.url[i] # ","
                     \/ isTextBase64 /\ b64decode(payload) = None
                     => /\ files[Join(a.name)] = before[Join(a.name)]
                        /\ files[Join(extended)] = before[Join(extended)]
      ]_vars

\* C31: a round-1 run that reaches the creation of the repository while a
\* repository of that name exists returns False in that step: nothing is
\* sent, no repository changes, and afterwards the store holds the round-1
\* request of this run for the task and no round-1 LLM response for it.
C31_ResubmissionAbortsAtCreation ==
    [][\A w \in Workers :
         /\ pc[w] = "r1_create_repo" /\ pc'[w] # pc[w]
         /\ repos[RepoName(req[w].task)].exists
         => /\ pc'[w] = "done" /\ ret'[w] = Some(FALSE)
            /\ notifications' = notifications
            /\ repos' = repos
            /\ \E i \in RowsOf(app_requests', req[w].task, 1) :
                 /\ app_requests'[i].nonce = req[w].nonce
                 /\ app_requests'[i].brief = req[w].brief
            /\ RowsOf(llm_responses', req[w].task, 1) = {}
      ]_vars

\* A round-1 resubmission after a successful round 1 of the task: the first
\* run notified, the second found the old request, generated a page and
\* returned False with the provider answering; the response of the first
\* run is gone.
C31_Witness ==
    \E w \in Workers :
        /\ Returned(w, FALSE) /\ loc[w].path = "round1" /\ loc[w].existing
        /\ loc[w].code # <<>> /\ ~loc[w].fault /\ loc[w].repo = None
        /\ \E n \in 1..Len(notifications) : notifications[n].data.task = req[w].task /\ notifications[n].data.round = 1
        /\ repos[RepoName(req[w].task)].files["index.html"] # Absent
        /\ RowsOf(app_requests, req[w].task, 1) # {}
        /\ RowsOf(llm_responses, req[w].task, 1) = {}

\* C32: every step that a round-2 run takes before it generates, while the
\* store holds a round-2 request of its task, leaves the store, the
\* repositories and the notifications as they are and does not go on to
\* generate; when it ends the run it returns False.
C32_Round2IsNotRetryable ==
    [][\A w \in Workers :
         /\ req[w].round = 2
         /\ pc[w] \in {"fb_lookup", "fb_lookup_response", "fb_find_repo", "fb_insert",
                     "r2_lookup", "r2_lookup_response", "r2_all_tasks", "r2_insert"}
         /\ StepOf(w)
         /\ RowsOf(app_requests, req[w].task, 2) # {}
         => /\ app_requests' = app_requests
            /\ llm_responses' = llm_responses
            /\ repos' = repos
            /\ notifications' = notifications
            /\ pc'[w] \notin GenerationSteps \cup {"fu_generate"}
            /\ pc'[w] = "done" => ret'[w] = Some(FALSE)
      ]_vars

\* The files of every repository.
FilesIn(rs) == [name \in RepoNames |-> rs[name].files]

\* The step with which a run returns False.
ReturnsFalse(w) == pc[w] # "done" /\ pc'[w] = "done" /\ ret'[w] = Some(FALSE)

\* The steps of a handler before it publishes.
BeforePublish ==
    {"r1_query", "r1_delete", "r1_insert", "r1_generate", "r1_create_repo",
     "fb_lookup", "fb_lookup_response", "fb_find_repo", "fb_insert", "fb_generate",
     "fb_create_repo", "r2_lookup", "r2_lookup_response", "r2_all_tasks", "r2_insert",
     "r2_refresh_request", "r2_generate", "r2_refresh_response"}

\* The steps in which a handler publishes its files.
PublishSteps == {"r1_commit", "fb_commit", "r2_update"}

\* C33 as claimed: a run that has returned False has written no file.
C33_FailedRunWritesNothing ==
    \A w \in Workers : Returned(w, FALSE) => loc[w].wrote = {}

\* C33: a file of a repository changes only in an exchange of a publish
\* step that writes it, and a run that returns False has written files only
\* when it failed in its publish step or after it.  When the publish step
\* itself returns False (a file write or the revision lookup failed), the
\* files it wrote are files of the run's file set in the run's repository,
\* with the content of that set.  When the run had published and returns
\* False in a later step, that step is the serving step of the fallback
\* Create path or the repository fetch of the Revise path, and the whole file
\* set is in place.  A run that returns False in any other step has written
\* nothing and holds no revision id.  The step that returns False changes no
\* file.
C33_FailedRunWritesOnlyInPublish ==
    [][/\ \A name \in RepoNames, f \in Paths :
             repos'[name].files[f] # repos[name].files[f] =>
                 \E w \in Workers :
                     /\ pc[w] \in PublishSteps
                     /\ loc[w].repo = Some(name)
                     /\ loc'[w].wrote = loc[w].wrote \cup {f}
       /\ \A w \in Workers :
             /\ pc[w] \in BeforePublish /\ StepOf(w) => loc'[w].wrote = {}
             /\ ReturnsFalse(w) =>
                  /\ FilesIn(repos') = FilesIn(repos)
                  /\ IF pc[w] \in PublishSteps
                     THEN /\ pc[w] # "r2_update" => loc[w].commit_sha = 0
                          /\ loc[w].repo # None =>
                               \A f \in loc[w].wrote :
                                   /\ f \in DOMAIN FilesOf(w)
                                   /\ repos[loc[w].repo[1]].files[f] = FilesOf(w)[f]
                     ELSE IF pc[w] \in {"fb_pages", "r2_get_repo"}
                     THEN /\ loc[w].commit_sha # 0
                          /\ loc[w].wrote = DOMAIN FilesOf(w)
                          /\ \A f \in loc[w].wrote :
                                 repos[loc[w].repo[1]].files[f] = FilesOf(w)[f]
                     ELSE loc[w].wrote = {} /\ loc[w].commit_sha = 0
      ]_vars

\* A round-1 run has written its page and its license, failed on the README
\* and returned False: the repository it created holds the two files.
C33_Witness ==
    \E w \in Workers :
        /\ Returned(w, FALSE) /\ loc[w].path = "round1"
        /\ loc[w].repo # None /\ loc[w].commit_sha = 0
        /\ repos[loc[w].repo[1]].files["index.html"] = loc[w].code
        /\ repos[loc[w].repo[1]].files["LICENSE"] = create_mit_license
        /\ repos[loc[w].repo[1]].files["README.md"] = Absent
        /\ loc[w].posts = 0

\* No run of build_app is under way.
NoRunUnderWay == \A w \in Workers : pc[w] \in {"idle", "done"}

\* C34: when no run is under way, every LLM response of the store has a
\* request of the store with the same task and the same round.
C34_EveryResponseHasItsRequest ==
    NoRunUnderWay =>
        \A i \in 1..Len(llm_responses) :
            RowsOf(app_requests, llm_responses[i].task, llm_responses[i].round_num) # {}

\* Both rounds of a task have been delivered and no run is under way: the
\* store holds a response for round 1 and one for round 2, each with its
\* request.
C34_Witness ==
    /\ NoRunUnderWay
    /\ \E w \in Workers : Returned(w, TRUE) /\ loc[w].path = "round2"
    /\ \E i, j \in 1..Len(llm_responses) :
         /\ llm_responses[i].round_num = 1 /\ llm_responses[j].round_num = 2
         /\ RowsOf(app_requests, llm_responses[i].task, 1) # {}
         /\ RowsOf(app_requests, llm_responses[j].task, 2) # {}

\* C35: when two overlapping runs handle round 1 of the same task, a
\* round-1 request and a round-1 LLM response of that task that are in the
\* store together belong to one submission: the recorded code is the page
\* generated from the recorded brief (or the fixed error page), the
\* index.html of the recorded repository is that code, and every
\* notification sent for the task carries the recorded nonce.
C35_RacingRound1RowsAgree ==
    /\ req["w1"].round = 1 /\ req["w2"].round = 1
    /\ req["w1"].task = req["w2"].task
    => \A i \in RowsOf(app_requests, req["w1"].task, 1),
          j \in RowsOf(llm_responses, req["w1"].task, 1) :
            LET code == llm_responses[j].generated_code
            IN  /\ code \in {ProviderCode(Text(app_requests[i].brief), 1), _get_fallback_calculator}
                /\ repos[RepoNameOfUrl(llm_responses[j].repo_url)].files["index.html"] = code
                /\ \A n \in 1..Len(notifications) :
                      notifications[n].data.task = req["w1"].task =>
                          notifications[n].data.nonce = app_requests[i].nonce

\* C36: a request file whose builder process was started is removed only
\* after that process has loaded it: no builder process finds its request
\* file missing.
C36_FileIsLoadedBeforeItIsRemoved ==
    \A k \in 1..Len(door.temp) :
        /\ door.temp[k].builder # "missing"
        /\ door.temp[k].builder # "none" /\ ~door.temp[k].exists
              => door.temp[k].builder \in {"loaded", "raised", "building", "built"}

\* C37: in every exchange of a publish step, on any path, the index.html, the
\* LICENSE and the README.md that the run has written are the generated
\* page, license and readme of the run (all of them once the step goes on),
\* a file of these names that is not generated is left alone, and no
\* resolved attachment is published under one of these names.
C37_AttachmentsNeverReplaceGeneratedFiles ==
    [][\A w \in Workers :
         /\ pc[w] \in PublishSteps /\ StepOf(w) /\ loc'[w].repo # None
         => LET files == repos'[loc'[w].repo[1]].files
                before == repos[loc'[w].repo[1]].files
                generated == GeneratedFilesOf(w)'
                attached == loc'[w].processed_files
                published == pc'[w] \in {"r1_pages", "fb_pages", "r2_get_repo"}
            IN  /\ \A f \in FileNames :
                      IF f \in DOMAIN generated
                      THEN f \in loc'[w].wrote => files[f] = generated[f]
                      ELSE files[f] = before[f]
                /\ published => \A f \in DOMAIN generated : files[f] = generated[f]
                /\ published => files["index.html"] = loc'[w].code
                /\ published => \A i \in 1..Len(attached) : Join(attached[i].name) \notin FileNames
      ]_vars

\* C38: a round-2 run on the Revise path combines a round-1 request and a
\* round-1 LLM response that were stored under the same task identifier,
\* and that identifier is the task of the run up to letter case.
C38_Round2CombinesOneTask ==
    \A w \in Workers :
        loc[w].path = "round2" /\ loc[w].round1_request # None /\ loc[w].round1_response # None
        => /\ loc[w].round1_request[1].task = loc[w].round1_response[1].task
           /\ Lower(loc[w].round1_request[1].task) = Lower(req[w].task)
           /\ Lower(loc[w].round1_response[1].task) = Lower(req[w].task)

====
